---- MODULE Spec2Model ----
(***************************************************************************)
(* TinyPEG: the PEG parse engine (src/peg/core.py, src/peg/parsers.py) as  *)
(* a small-step machine over parser instances and parse() calls, and the   *)
(* TinyCL AST reconstruction (src/tinycl/parser.py) as operators over the  *)
(* engine's match trees.                                                   *)
(***************************************************************************)
EXTENDS Integers, Sequences, FiniteSets, TLC

(***************************************************************************)
(* Bounds                                                                  *)
(***************************************************************************)
MaxLen == 3
MaxCalls == 2
MaxConcLen == 1

(***************************************************************************)
(* Characters and texts.  A text is a sequence of characters; the cursor   *)
(* ctx.pos is a 0-based offset, so text[pos + 1] is the character at it.   *)
(***************************************************************************)
Alphabet == {"a", "b", " "}

IsSpace(c) == c \in {" ", "\t", "\n", "\r"}

RECURSIVE TextsOfLen(_)
TextsOfLen(n) ==
  IF n = 0 THEN {<<>>}
  ELSE {Append(s, c) : s \in TextsOfLen(n - 1), c \in Alphabet}

TextsUpTo(n) == UNION {TextsOfLen(k) : k \in 0..n}

(***************************************************************************)
(* MatchResult values: a string, None, or a list of values.                *)
(***************************************************************************)
Str(s) == [t |-> "str", s |-> s, l |-> <<>>]
NoneV == [t |-> "none", s |-> <<>>, l |-> <<>>]
List(l) == [t |-> "list", s |-> <<>>, l |-> l]

(***************************************************************************)
(* Expressions (src/peg/core.py, src/peg/parsers.py)                       *)
(***************************************************************************)
NoExpr == [k |-> "None", lit |-> <<>>, cls |-> <<>>, name |-> "", xs |-> <<>>]
Literal(s) == [NoExpr EXCEPT !.k = "Literal", !.lit = s]
Regex(c) == [NoExpr EXCEPT !.k = "Regex", !.cls = c]
Sequence(xs) == [NoExpr EXCEPT !.k = "Sequence", !.xs = xs]
Choice(xs) == [NoExpr EXCEPT !.k = "Choice", !.xs = xs]
ZeroOrMore(e) == [NoExpr EXCEPT !.k = "ZeroOrMore", !.xs = <<e>>]
OneOrMore(e) == [NoExpr EXCEPT !.k = "OneOrMore", !.xs = <<e>>]
Optional(e) == [NoExpr EXCEPT !.k = "Optional", !.xs = <<e>>]
AndPredicate(e) == [NoExpr EXCEPT !.k = "AndPredicate", !.xs = <<e>>]
NotPredicate(e) == [NoExpr EXCEPT !.k = "NotPredicate", !.xs = <<e>>]
Reference(n) == [NoExpr EXCEPT !.k = "Reference", !.name = n]
Rule(n, e) == [name |-> n, expr |-> e]

\* the items of Regex patterns: [chars], [chars]+, [chars]*, [^chars], [^chars]*
Once(chars) == [chars |-> chars, neg |-> FALSE, q |-> "1"]
Plus(chars) == [chars |-> chars, neg |-> FALSE, q |-> "+"]
Star(chars) == [chars |-> chars, neg |-> FALSE, q |-> "*"]
OnceNot(chars) == [chars |-> chars, neg |-> TRUE, q |-> "1"]
StarNot(chars) == [chars |-> chars, neg |-> TRUE, q |-> "*"]

(***************************************************************************)
(* The grammars the parser instances are built with.                       *)
(***************************************************************************)
Grammars == <<
  \* 1: a rule reached twice at one offset through backtracking
  << Rule("S", Choice(<<Sequence(<<Reference("A"), Literal(<<"b">>)>>),
                        Reference("A")>>)),
     Rule("A", Literal(<<"a">>)) >>,
  \* 2: two literals sharing a prefix, shorter first
  << Rule("S", Choice(<<Literal(<<"a">>), Literal(<<"a", "b">>)>>)) >>,
  \* 3: repetition of a nullable expression
  << Rule("S", ZeroOrMore(Optional(Literal(<<"a">>)))) >>,
  \* 4: negative lookahead before a character class
  << Rule("S", Sequence(<<NotPredicate(Literal(<<"a">>)), Regex(<<Plus({"a", "b"})>>)>>)) >>,
  \* 5: repetition of a predicate and of a repetition
  << Rule("S", Sequence(<<OneOrMore(AndPredicate(Literal(<<"a">>))),
                          ZeroOrMore(ZeroOrMore(Literal(<<"a">>))),
                          Optional(Reference("B"))>>)),
     Rule("B", OneOrMore(Literal(<<"b">>))) >>,
  \* 6: a reference to a rule that no rule defines
  << Rule("S", Sequence(<<Optional(Reference("U")),
                          OneOrMore(Reference("A"))>>)),
     Rule("A", Choice(<<Regex(<<Plus({"a"})>>), Literal(<<"b">>)>>)) >>,
  \* 7: a reference as the inner expression of a predicate
  << Rule("S", Sequence(<<Choice(<<Literal(<<"b">>), AndPredicate(Reference("A"))>>),
                          Reference("A")>>)),
     Rule("A", Literal(<<"a">>)) >>,
  \* 8: a choice with no alternative that can match "b"
  << Rule("S", Sequence(<<Reference("A"), ZeroOrMore(Reference("A"))>>)),
     Rule("A", Choice(<<Sequence(<<Literal(<<"a">>), Literal(<<"a">>)>>),
                        Sequence(<<Literal(<<"a">>), NotPredicate(Literal(<<"b">>))>>)>>)) >>,
  \* 9: an undefined reference as the second alternative of a choice
  << Rule("S", Sequence(<<Choice(<<Literal(<<"a">>), Reference("U")>>),
                          ZeroOrMore(Literal(<<"b">>))>>)) >>,
  \* 10: repetitions of a character class, which skips no whitespace after it
  << Rule("S", Sequence(<<OneOrMore(Regex(<<Once({"a"})>>)),
                          ZeroOrMore(Regex(<<Once({"b"})>>)),
                          Optional(Literal(<<"a">>))>>)) >>,
  \* 11: two literals sharing a prefix, longer first
  << Rule("S", Sequence(<<Choice(<<Literal(<<"a", "b">>), Literal(<<"a">>)>>),
                          Optional(Reference("S"))>>)) >>
>>

GrammarIds == 1..Len(Grammars)

(***************************************************************************)
(* The TinyCL grammar (src/tinycl/parser.py, TinyCLParser.__init__)        *)
(***************************************************************************)
Digits == {"0", "1", "2", "3", "4", "5", "6", "7", "8", "9"}

Lower == {"a", "b", "c", "d", "e", "f", "g", "h", "i", "j", "k", "l", "m",
          "n", "o", "p", "q", "r", "s", "t", "u", "v", "w", "x", "y", "z"}

Upper == {"A", "B", "C", "D", "E", "F", "G", "H", "I", "J", "K", "L", "M",
          "N", "O", "P", "Q", "R", "S", "T", "U", "V", "W", "X", "Y", "Z"}

Letters == Lower \cup Upper

TinyCLGrammar == <<
  Rule("Program", ZeroOrMore(Reference("Statement"))),
  Rule("Statement", Choice(<<Reference("FunctionDecl"),
      Reference("VariableDecl"), Reference("ConstantDecl"),
      Reference("IfStatement"), Reference("WhileStatement"),
      Reference("PrintStatement"), Reference("ReturnStatement"),
      Reference("AssignmentStatement"), Reference("FunctionCallStatement"),
      Reference("Block")>>)),
  Rule("FunctionDecl", Sequence(<<Literal(<<"f", "u", "n", "c">>),
      Reference("Identifier"), Literal(<<"(">>),
      Optional(Reference("Parameters")), Literal(<<")">>),
      Reference("Block")>>)),
  Rule("Parameters", Sequence(<<Reference("Identifier"),
      ZeroOrMore(Sequence(<<Literal(<<",">>),
      Reference("Identifier")>>))>>)),
  Rule("VariableDecl", Sequence(<<Literal(<<"v", "a", "r">>),
      Reference("Identifier"), Literal(<<"=">>), Reference("Expression"),
      Literal(<<";">>)>>)),
  Rule("ConstantDecl", Sequence(<<Literal(<<"c", "o", "n", "s", "t">>),
      Reference("Identifier"), Literal(<<"=">>), Reference("Expression"),
      Literal(<<";">>)>>)),
  Rule("IfStatement", Sequence(<<Literal(<<"i", "f">>), Literal(<<"(">>),
      Reference("Expression"), Literal(<<")">>), Reference("Block"),
      Optional(Sequence(<<Literal(<<"e", "l", "s", "e">>),
      Reference("Block")>>))>>)),
  Rule("WhileStatement", Sequence(<<Literal(<<"w", "h", "i", "l", "e">>),
      Literal(<<"(">>), Reference("Expression"), Literal(<<")">>),
      Reference("Block")>>)),
  Rule("PrintStatement", Sequence(<<Literal(<<"p", "r", "i", "n", "t">>),
      Literal(<<"(">>), Reference("Expression"), Literal(<<")">>),
      Literal(<<";">>)>>)),
  Rule("ReturnStatement", Sequence(<<Literal(<<"r", "e", "t", "u", "r",
      "n">>), Optional(Reference("Expression")), Literal(<<";">>)>>)),
  Rule("AssignmentStatement", Sequence(<<Reference("Identifier"),
      Literal(<<"=">>), Reference("Expression"), Literal(<<";">>)>>)),
  Rule("FunctionCallStatement", Sequence(<<Reference("Identifier"),
      Literal(<<"(">>), Optional(Reference("Arguments")), Literal(<<")">>),
      Literal(<<";">>)>>)),
  Rule("Arguments", Sequence(<<Reference("Expression"),
      ZeroOrMore(Sequence(<<Literal(<<",">>),
      Reference("Expression")>>))>>)),
  Rule("Block", Sequence(<<Literal(<<"{">>),
      ZeroOrMore(Reference("Statement")), Literal(<<"}">>)>>)),
  Rule("Expression", Reference("LogicalOr")),
  Rule("LogicalOr", Sequence(<<Reference("LogicalAnd"),
      ZeroOrMore(Sequence(<<Literal(<<"|", "|">>),
      Reference("LogicalAnd")>>))>>)),
  Rule("LogicalAnd", Sequence(<<Reference("Equality"),
      ZeroOrMore(Sequence(<<Literal(<<"&", "&">>),
      Reference("Equality")>>))>>)),
  Rule("Equality", Sequence(<<Reference("Comparison"),
      ZeroOrMore(Sequence(<<Choice(<<Literal(<<"!", "=">>), Literal(<<"=",
      "=">>)>>), Reference("Comparison")>>))>>)),
  Rule("Comparison", Sequence(<<Reference("Term"),
      ZeroOrMore(Sequence(<<Choice(<<Literal(<<"<", "=">>), Literal(<<">",
      "=">>), Literal(<<"<">>), Literal(<<">">>)>>),
      Reference("Term")>>))>>)),
  Rule("Term", Sequence(<<Reference("Factor"),
      ZeroOrMore(Sequence(<<Choice(<<Literal(<<"+">>), Literal(<<"-">>)>>),
      Reference("Factor")>>))>>)),
  Rule("Factor", Sequence(<<Reference("Unary"),
      ZeroOrMore(Sequence(<<Choice(<<Literal(<<"*">>), Literal(<<"/">>)>>),
      Reference("Unary")>>))>>)),
  Rule("Unary", Choice(<<Sequence(<<Choice(<<Literal(<<"!">>),
      Literal(<<"-">>)>>), Reference("Unary")>>), Reference("Postfix")>>)),
  Rule("Postfix", Sequence(<<Reference("Primary"),
      ZeroOrMore(Sequence(<<Literal(<<"[">>), Reference("Expression"),
      Literal(<<"]">>)>>))>>)),
  Rule("Primary", Choice(<<Sequence(<<Literal(<<"(">>),
      Reference("Expression"), Literal(<<")">>)>>),
      Sequence(<<Reference("Identifier"), Literal(<<"(">>),
      Optional(Reference("Arguments")), Literal(<<")">>)>>),
      Sequence(<<Literal(<<"[">>), Optional(Reference("Arguments")),
      Literal(<<"]">>)>>), Reference("Identifier"), Reference("Number"),
      Reference("String"), Reference("Character"), Literal(<<"t", "r", "u",
      "e">>), Literal(<<"f", "a", "l", "s", "e">>)>>)),
  Rule("Number", Regex(<<Plus(Digits)>>)),
  Rule("String", Regex(<<Once({"\""}), StarNot({"\""}), Once({"\""})>>)),
  Rule("Character", Regex(<<Once({"'"}), OnceNot({"'"}), Once({"'"})>>)),
  Rule("Identifier", Regex(<<Once(Letters \cup {"_"}),
      Star(Letters \cup Digits \cup {"_"})>>))
>>

(***************************************************************************)
(* Threads of control and parser instances.  c1, c2 call parse() on the    *)
(* parser instance P; r1, r2 each call parse() on a parser constructed for *)
(* that one call (F1, F2); tc calls parse() on a TinyCLParser (T); d1      *)
(* calls parse() on a parser (D) whose grammar is that of P with a rule    *)
(* added for every name that P's grammar references and does not define;   *)
(* n1 and tn call parse() on a PEGParser (N) and a TinyCLParser (TN) that  *)
(* are the parsers P and T with the lookup in rule_cache left out.         *)
(***************************************************************************)
Callers == {"c1", "c2"}
Freshers == {"r1", "r2"}
Compilers == {"tc", "tn"}
Definers == {"d1"}
Uncached == {"n1", "tn"}
Threads == Callers \cup Freshers \cup Compilers \cup Definers \cup Uncached
Instances == {"P", "F1", "F2", "T", "D", "N", "TN"}

InstanceOf(t) == CASE t \in Callers -> "P"
                   [] t = "r1" -> "F1"
                   [] t = "r2" -> "F2"
                   [] t \in Definers -> "D"
                   [] t = "n1" -> "N"
                   [] t = "tn" -> "TN"
                   [] OTHER -> "T"

CallerOf(t) == IF t = "r1" THEN "c1" ELSE "c2"

VARIABLES grammar, cache, th, calls, tinycl, example, interp

vars == <<grammar, cache, th, calls, tinycl, example, interp>>

RuleNames(g) == {g[i].name : i \in 1..Len(g)}

\* the names of the References inside an expression
RECURSIVE ReferencedIn(_)
ReferencedIn(e) ==
  IF e.k = "Reference" THEN {e.name}
  ELSE UNION {ReferencedIn(e.xs[i]) : i \in 1..Len(e.xs)}

\* the names a grammar references and no rule of it defines
UndefinedNames(g) == UNION {ReferencedIn(g[i].expr) : i \in 1..Len(g)} \ RuleNames(g)

\* the grammar with a rule added for each of the names
RECURSIVE Define(_, _)
Define(g, names) ==
  IF names = {} THEN g
  ELSE LET n == CHOOSE n \in names : TRUE
       IN Define(Append(g, Rule(n, Literal(<<"b">>))), names \ {n})

\* self.grammar of the parser a thread calls
GrammarOf(t) ==
  IF t \in Compilers THEN TinyCLGrammar
  ELSE IF t \in Definers THEN Define(Grammars[grammar], UndefinedNames(Grammars[grammar]))
  ELSE Grammars[grammar]

(***************************************************************************)
(* ParserContext (src/peg/core.py)                                         *)
(***************************************************************************)
eof(text, pos) == pos >= Len(text)

RECURSIVE skip_whitespace(_, _)
skip_whitespace(text, pos) ==
  IF ~eof(text, pos) /\ IsSpace(text[pos + 1])
  THEN skip_whitespace(text, pos + 1)
  ELSE pos

(***************************************************************************)
(* Terminals.  Each yields [ok, pos, val]: whether the match succeeded,    *)
(* the cursor it leaves and the matched text.                              *)
(***************************************************************************)
\* a loop that consumes without asking eof() first
LiteralConsumesPastEnd(text, pos, lit) ==
  \A i \in 1..Len(lit) : pos + i <= Len(text) => text[pos + i] = lit[i]

\* for char in self.text: fail if ctx.eof() or ctx.peek() != char, else consume
LiteralMatches(text, pos, lit) ==
  \A i \in 1..Len(lit) : pos + i <= Len(text) /\ text[pos + i] = lit[i]

LiteralParse(text, pos, lit) ==
  IF eof(text, pos) THEN [ok |-> FALSE, pos |-> pos, val |-> <<>>]
  ELSE IF ~LiteralMatches(text, pos, lit)
       THEN [ok |-> FALSE, pos |-> pos, val |-> <<>>]
       ELSE [ok |-> TRUE, pos |-> skip_whitespace(text, pos + Len(lit)), val |-> lit]

\* Regex patterns are sequences of character classes, each taken once ("1"),
\* one or more times ("+") or zero or more times ("*"); every pattern of the
\* grammars is of this form and is matched greedily, left to right.
InClass(c, item) == IF item.neg THEN c \notin item.chars ELSE c \in item.chars

RECURSIVE ClassRun(_, _, _)
ClassRun(text, pos, item) ==
  IF ~eof(text, pos) /\ InClass(text[pos + 1], item)
  THEN 1 + ClassRun(text, pos + 1, item)
  ELSE 0

\* length of the prefix of text[pos:] matched by items[i..], or -1
RECURSIVE RegexMatchLen(_, _, _, _)
RegexMatchLen(text, pos, items, i) ==
  IF i > Len(items) THEN 0
  ELSE LET run == ClassRun(text, pos, items[i])
           take == IF items[i].q = "1" THEN 1 ELSE run
           rest == RegexMatchLen(text, pos + take, items, i + 1)
       IN IF (items[i].q \in {"1", "+"} /\ run = 0) \/ rest < 0 THEN -1
          ELSE take + rest

RegexParse(text, pos, items) ==
  LET p == skip_whitespace(text, pos)
      m == RegexMatchLen(text, p, items, 1)
  IN IF eof(text, p) \/ m < 0
     THEN [ok |-> FALSE, pos |-> p, val |-> <<>>]
     ELSE [ok |-> TRUE, pos |-> p + m, val |-> SubSeq(text, p + 1, p + m)]

(***************************************************************************)
(* A parse() call in progress.  mode is the position of the call:          *)
(*   idle  no call made yet        eval  about to match expression cur     *)
(*   call  entering _parse_rule    hit   memo key found, entry not read    *)
(*   ret   an expression returned val      fail  ParseError is propagating *)
(*   done  parse() has returned or raised (outcome)                        *)
(* stack holds the frames of the enclosing parse methods.                  *)
(***************************************************************************)
NoOutcome == [kind |-> "none", val |-> NoneV, offset |-> 0]

IdleThread == [text |-> <<>>, pos |-> 0, mode |-> "idle", cur |-> NoExpr,
               direct |-> FALSE, rule |-> "", val |-> NoneV, err |-> "",
               stack |-> <<>>, outcome |-> NoOutcome, readFrom |-> {},
               undefined |-> FALSE]

Frame(k, e, start) == [k |-> k, e |-> e, start |-> start, i |-> 0,
                       acc |-> <<>>, n |-> 0, first |-> FALSE, origin |-> start,
                       name |-> ""]

Top(r) == r.stack[Len(r.stack)]
Pop(r) == [r EXCEPT !.stack = SubSeq(r.stack, 1, Len(r.stack) - 1)]
Push(r, f) == [r EXCEPT !.stack = Append(r.stack, f)]
SetTop(r, f) == [r EXCEPT !.stack[Len(r.stack)] = f]

Eval(r, e, direct) == [r EXCEPT !.mode = "eval", !.cur = e, !.direct = direct,
                                !.val = NoneV, !.err = ""]
Return(r, v) == [r EXCEPT !.mode = "ret", !.cur = NoExpr, !.direct = FALSE,
                          !.val = v, !.err = ""]
Raise(r, m) == [r EXCEPT !.mode = "fail", !.cur = NoExpr, !.direct = FALSE,
                         !.val = NoneV, !.err = m]
\* an exception that is not a ParseError: no parse method catches it
Crash(r, m) == [r EXCEPT !.mode = "done", !.cur = NoExpr, !.direct = FALSE,
                         !.val = NoneV, !.err = "", !.stack = <<>>, !.rule = "",
                         !.outcome = [kind |-> m, val |-> NoneV, offset |-> 0]]

Evaluating(t, kind) == th[t].mode = "eval" /\ th[t].cur.k = kind
Resuming(t, kind) == /\ th[t].mode \in {"ret", "fail"}
                     /\ th[t].stack # <<>>
                     /\ Top(th[t]).k = kind

RuleNamed(g, n) == g[CHOOSE i \in 1..Len(g) : g[i].name = n /\ \A j \in 1..(i - 1) : g[j].name # n]

(***************************************************************************)
(* PEGParser.__init__ and PEGParser.parse                                  *)
(***************************************************************************)
EmptyCache == <<>>

\* a fresh parser for one reference call: PEGParser() with the same grammar
Construct(t) ==
  /\ t \in Freshers
  /\ th[t].mode \in {"idle", "done"}
  /\ th[CallerOf(t)].mode = "done"
  /\ calls[t] < calls[CallerOf(t)]
  /\ cache' = [cache EXCEPT ![InstanceOf(t)] = EmptyCache]
  /\ th' = [th EXCEPT ![t] = [IdleThread EXCEPT !.mode = "new"]]
  /\ UNCHANGED <<grammar, calls, tinycl, example, interp>>

ParseKeepCache(c, inst) == c

\* self.rule_cache = {} at the start of parse()
ParseResetCache(c, inst) == [c EXCEPT ![inst] = EmptyCache]

\* parse() up to the call of _parse_rule on the start rule
ParseStart(t, text) ==
  /\ th[t].mode \in {"idle", "done", "new"}
  /\ cache' = ParseResetCache(cache, InstanceOf(t))
  /\ th' = [th EXCEPT ![t] =
              [IdleThread EXCEPT !.text = text,
                                 !.pos = skip_whitespace(text, 0),
                                 !.mode = "call",
                                 !.rule = GrammarOf(t)[1].name,
                                 !.stack = <<Frame("parse", NoExpr, 0)>>]]
  /\ calls' = [calls EXCEPT ![t] = @ + 1]
  /\ UNCHANGED grammar

ParseOutcomeIgnoringRest(text, pos, val) ==
  [kind |-> "ok", val |-> val, offset |-> skip_whitespace(text, pos)]

\* the end of parse(): skip final whitespace, require end of input
ParseOutcome(text, pos, val) ==
  LET p == skip_whitespace(text, pos)
  IN IF ~eof(text, p)
     THEN [kind |-> "ParseError", val |-> NoneV, offset |-> p]
     ELSE [kind |-> "ok", val |-> val, offset |-> p]

ParseFinish(t) ==
  /\ Resuming(t, "parse")
  /\ LET r == th[t]
         done == [r EXCEPT !.mode = "done", !.stack = <<>>, !.val = NoneV,
                           !.err = "", !.rule = ""]
     IN th' = [th EXCEPT ![t] =
                 IF r.mode = "ret"
                 THEN [done EXCEPT !.pos = skip_whitespace(r.text, r.pos),
                                   !.outcome = ParseOutcome(r.text, r.pos, r.val)]
                 ELSE [done EXCEPT !.outcome =
                         [kind |-> "ParseError", val |-> NoneV, offset |-> -1]]]
  /\ UNCHANGED <<grammar, cache, calls, tinycl, example, interp>>

(***************************************************************************)
(* PEGParser._parse_rule, _parse_expression, _parse_reference              *)
(***************************************************************************)
\* TinyCLParser.skip_whitespace: whitespace and # comments up to the line end
RECURSIVE SkipComment(_, _)
SkipComment(text, pos) ==
  IF ~eof(text, pos) /\ text[pos + 1] # "\n"
  THEN SkipComment(text, pos + 1)
  ELSE pos

RECURSIVE TinyCL_skip_whitespace(_, _)
TinyCL_skip_whitespace(text, pos) ==
  IF eof(text, pos) THEN pos
  ELSE IF IsSpace(text[pos + 1]) THEN TinyCL_skip_whitespace(text, pos + 1)
  ELSE IF text[pos + 1] = "#" THEN TinyCL_skip_whitespace(text, SkipComment(text, pos))
  ELSE pos

\* TinyCLParser._parse_expression skips whitespace and comments before and
\* after PEGParser._parse_expression
SkipAround(t, text, pos) ==
  IF t \in Compilers THEN TinyCL_skip_whitespace(text, pos) ELSE pos

\* whether the parser of a thread looks its key up in rule_cache, as
\* _parse_rule does
MemoLookup(t) == t \notin Uncached

\* cache_key in self.rule_cache; on a miss, skip whitespace and match the body
RuleEnter(t) ==
  /\ th[t].mode = "call"
  /\ LET r == th[t]
         key == <<r.rule, r.pos>>
         rule == RuleNamed(GrammarOf(t), r.rule)
         f == [Frame("Rule", rule.expr, r.pos) EXCEPT !.name = r.rule]
     IN th' = [th EXCEPT ![t] =
                 IF MemoLookup(t) /\ key \in DOMAIN cache[InstanceOf(t)]
                 THEN [r EXCEPT !.mode = "hit"]
                 ELSE Eval([Push(r, f) EXCEPT
                              !.pos = skip_whitespace(r.text,
                                        SkipAround(t, r.text,
                                          skip_whitespace(r.text, r.pos))),
                              !.rule = ""],
                           rule.expr, FALSE)]
  /\ UNCHANGED <<grammar, cache, calls, tinycl, example, interp>>

HitKeepsCursor(entry, pos) == pos

\* the cursor after a memo hit: ctx.pos = new_pos
HitCursor(entry, pos) == entry.end

\* result, new_pos = self.rule_cache[cache_key]; ctx.pos = new_pos
RuleHit(t) ==
  /\ th[t].mode = "hit"
  /\ LET r == th[t]
         key == <<r.rule, r.pos>>
         tbl == cache[InstanceOf(t)]
     IN th' = [th EXCEPT ![t] =
                 IF key \in DOMAIN tbl
                 THEN Return([r EXCEPT !.pos = HitCursor(tbl[key], r.pos), !.rule = "",
                                       !.readFrom = @ \cup {tbl[key].by}],
                             tbl[key].val)
                 ELSE Crash(r, "KeyError")]
  /\ UNCHANGED <<grammar, cache, calls, tinycl, example, interp>>

\* a table that takes an entry for the key of a failed attempt
MemoFailureStored(c, inst, key, entry) == [c EXCEPT ![inst] = (key :> entry) @@ @]

\* except ParseError: ctx.pos = start_pos and raise; rule_cache is not touched
MemoOnFailure(c, inst, key, entry) == c

\* self.rule_cache[cache_key] = (result, ctx.pos), or backtrack on failure
RuleResume(t) ==
  /\ Resuming(t, "Rule")
  /\ LET r == th[t]
         f == Top(r)
         inst == InstanceOf(t)
         end == SkipAround(t, r.text, r.pos)
     IN IF r.mode = "ret"
        THEN /\ cache' = [cache EXCEPT ![inst] =
                            (<<f.name, f.start>> :>
                               [val |-> r.val, end |-> end,
                                by |-> <<t, calls[t]>>]) @@ @]
             /\ th' = [th EXCEPT ![t] = Return([Pop(r) EXCEPT !.pos = end], r.val)]
        ELSE /\ cache' = MemoOnFailure(cache, inst, <<f.name, f.start>>,
                                       [val |-> NoneV, end |-> f.start,
                                        by |-> <<t, calls[t]>>])
             /\ th' = [th EXCEPT ![t] = Raise([Pop(r) EXCEPT !.pos = f.start], r.err)]
  /\ UNCHANGED <<grammar, calls, tinycl, example, interp>>

\* a Reference reached through the parser, or through Reference.parse
ReferenceParse(t) ==
  /\ Evaluating(t, "Reference")
  /\ LET r == th[t]
     IN th' = [th EXCEPT ![t] =
                 IF r.direct THEN Crash(r, "NotImplementedError")
                 ELSE IF r.cur.name \in RuleNames(GrammarOf(t))
                      THEN [r EXCEPT !.mode = "call", !.rule = r.cur.name,
                                     !.cur = NoExpr]
                      ELSE Raise([r EXCEPT !.undefined = TRUE], "Undefined rule")]
  /\ UNCHANGED <<grammar, cache, calls, tinycl, example, interp>>

(***************************************************************************)
(* Literal.parse and Regex.parse                                           *)
(***************************************************************************)
LiteralStep(t) ==
  /\ Evaluating(t, "Literal")
  /\ LET r == th[t]
         m == LiteralParse(r.text, r.pos, r.cur.lit)
     IN th' = [th EXCEPT ![t] =
                 IF m.ok THEN Return([r EXCEPT !.pos = m.pos], Str(m.val))
                 ELSE Raise([r EXCEPT !.pos = m.pos], "Expected")]
  /\ UNCHANGED <<grammar, cache, calls, tinycl, example, interp>>

RegexStep(t) ==
  /\ Evaluating(t, "Regex")
  /\ LET r == th[t]
         m == RegexParse(r.text, r.pos, r.cur.cls)
     IN th' = [th EXCEPT ![t] =
                 IF m.ok THEN Return([r EXCEPT !.pos = m.pos], Str(m.val))
                 ELSE Raise([r EXCEPT !.pos = m.pos], "Expected pattern")]
  /\ UNCHANGED <<grammar, cache, calls, tinycl, example, interp>>

(***************************************************************************)
(* Sequence.parse                                                          *)
(***************************************************************************)
SequenceEnter(t) ==
  /\ Evaluating(t, "Sequence")
  /\ LET r == th[t]
         e == r.cur
         f == [Frame("Sequence", e, r.pos) EXCEPT !.i = 1]
     IN th' = [th EXCEPT ![t] =
                 IF Len(e.xs) = 0 THEN Return(r, List(<<>>))
                 ELSE Eval([Push(r, f) EXCEPT !.pos = skip_whitespace(r.text, r.pos)],
                           e.xs[1], FALSE)]
  /\ UNCHANGED <<grammar, cache, calls, tinycl, example, interp>>

SequenceKeepsCursor(r, f) == Raise(Pop(r), "Sequence failed")

\* except ParseError: ctx.pos = start_pos; raise ParseError("Sequence failed")
SequenceOnFailure(r, f) == Raise([Pop(r) EXCEPT !.pos = f.start], "Sequence failed")

SequenceResume(t) ==
  /\ Resuming(t, "Sequence")
  /\ LET r == th[t]
         f == Top(r)
         acc == Append(f.acc, r.val)
     IN th' = [th EXCEPT ![t] =
                 IF r.mode = "fail"
                 THEN SequenceOnFailure(r, f)
                 ELSE IF f.i < Len(f.e.xs)
                      THEN Eval([SetTop(r, [f EXCEPT !.i = f.i + 1, !.acc = acc])
                                   EXCEPT !.pos = skip_whitespace(r.text, r.pos)],
                                f.e.xs[f.i + 1], FALSE)
                      ELSE Return(Pop(r), List(acc))]
  /\ UNCHANGED <<grammar, cache, calls, tinycl, example, interp>>

(***************************************************************************)
(* Choice.parse                                                            *)
(***************************************************************************)
ChoiceEnter(t) ==
  /\ Evaluating(t, "Choice")
  /\ LET r == th[t]
         e == r.cur
         f == [Frame("Choice", e, r.pos) EXCEPT !.i = 1]
     IN th' = [th EXCEPT ![t] =
                 IF Len(e.xs) = 0 THEN Raise(r, "None of the choices matched")
                 ELSE Eval(Push(r, f), e.xs[1], FALSE)]
  /\ UNCHANGED <<grammar, cache, calls, tinycl, example, interp>>

\* the cursor from which the next alternative is tried: ctx.pos = start_pos
ChoiceRetryPos(f, pos) == f.start

ChoiceTriesAll(f) == FALSE

\* whether the loop over the alternatives ends when one has returned
ChoiceReturnsOnSuccess(f) == TRUE

ChoiceResume(t) ==
  /\ Resuming(t, "Choice")
  /\ LET r == th[t]
         f == Top(r)
         more == f.i < Len(f.e.xs)
         next == Eval([SetTop(r, [f EXCEPT !.i = f.i + 1])
                         EXCEPT !.pos = ChoiceRetryPos(f, r.pos)],
                      f.e.xs[f.i + 1], FALSE)
     IN th' = [th EXCEPT ![t] =
                 IF r.mode = "ret"
                 THEN IF ChoiceReturnsOnSuccess(f) \/ ~more
                      THEN Return(Pop(r), r.val)
                      ELSE next
                 ELSE IF more
                      THEN next
                      ELSE Raise([Pop(r) EXCEPT !.pos = f.start],
                                 "None of the choices matched")]
  /\ UNCHANGED <<grammar, cache, calls, tinycl, example, interp>>

(***************************************************************************)
(* ZeroOrMore.parse and OneOrMore.parse                                    *)
(***************************************************************************)
LoopNeverBreaks(pos, start_pos) == FALSE

\* the check for an infinite loop: if ctx.pos == start_pos: break
LoopBreaks(pos, start_pos) == pos = start_pos

ZeroOrMoreEnter(t) ==
  /\ Evaluating(t, "ZeroOrMore")
  /\ LET r == th[t]
         f == [Frame("ZeroOrMore", r.cur, r.pos) EXCEPT !.n = 1]
     IN th' = [th EXCEPT ![t] = Eval(Push(r, f), r.cur.xs[1], FALSE)]
  /\ UNCHANGED <<grammar, cache, calls, tinycl, example, interp>>

\* one pass of the while True loop, shared by ZeroOrMore and OneOrMore
LoopResume(r) ==
  LET f == Top(r)
      acc == Append(f.acc, r.val)
  IN IF r.mode = "fail"
     THEN Return(Pop(r), List(f.acc))
     ELSE IF LoopBreaks(r.pos, f.start)
          THEN Return(Pop(r), List(acc))
          ELSE Eval(SetTop(r, [f EXCEPT !.acc = acc, !.start = r.pos,
                                        !.n = f.n + 1]),
                    f.e.xs[1], FALSE)

ZeroOrMoreResume(t) ==
  /\ Resuming(t, "ZeroOrMore")
  /\ th' = [th EXCEPT ![t] = LoopResume(th[t])]
  /\ UNCHANGED <<grammar, cache, calls, tinycl, example, interp>>

OneOrMoreEnter(t) ==
  /\ Evaluating(t, "OneOrMore")
  /\ LET r == th[t]
         f == [Frame("OneOrMore", r.cur, r.pos) EXCEPT !.first = TRUE]
     IN th' = [th EXCEPT ![t] = Eval(Push(r, f), r.cur.xs[1], FALSE)]
  /\ UNCHANGED <<grammar, cache, calls, tinycl, example, interp>>

FirstFailureEndsLoop(r, f) == Return(Pop(r), List(<<>>))

\* the first attempt is outside the loop: its ParseError reaches the outer
\* except clause, ctx.pos = start_pos; raise ParseError("OneOrMore failed")
FirstFailureRaises(r, f) == Raise([Pop(r) EXCEPT !.pos = f.start], "OneOrMore failed")

OneOrMoreResume(t) ==
  /\ Resuming(t, "OneOrMore")
  /\ LET r == th[t]
         f == Top(r)
     IN th' = [th EXCEPT ![t] =
                 IF ~f.first THEN LoopResume(r)
                 ELSE IF r.mode = "fail"
                      THEN FirstFailureRaises(r, f)
                      ELSE Eval(SetTop(r, [f EXCEPT !.first = FALSE,
                                                    !.acc = <<r.val>>,
                                                    !.start = r.pos, !.n = 1]),
                                f.e.xs[1], FALSE)]
  /\ UNCHANGED <<grammar, cache, calls, tinycl, example, interp>>

(***************************************************************************)
(* Optional.parse, AndPredicate.parse, NotPredicate.parse                  *)
(***************************************************************************)
OptionalEnter(t) ==
  /\ Evaluating(t, "Optional")
  /\ LET r == th[t]
     IN th' = [th EXCEPT ![t] =
                 Eval(Push(r, Frame("Optional", r.cur, r.pos)), r.cur.xs[1], FALSE)]
  /\ UNCHANGED <<grammar, cache, calls, tinycl, example, interp>>

OptionalPropagates(r, f) == Raise([Pop(r) EXCEPT !.pos = f.start], "Optional failed")

\* except ParseError: ctx.pos = start_pos; return None
OptionalOnFailure(r, f) == Return([Pop(r) EXCEPT !.pos = f.start], NoneV)

OptionalResume(t) ==
  /\ Resuming(t, "Optional")
  /\ LET r == th[t]
         f == Top(r)
     IN th' = [th EXCEPT ![t] =
                 IF r.mode = "ret" THEN Return(Pop(r), r.val)
                 ELSE OptionalOnFailure(r, f)]
  /\ UNCHANGED <<grammar, cache, calls, tinycl, example, interp>>

\* the predicates call self.expr.parse(ctx) on the inner expression directly
AndPredicateEnter(t) ==
  /\ Evaluating(t, "AndPredicate")
  /\ LET r == th[t]
     IN th' = [th EXCEPT ![t] =
                 Eval(Push(r, Frame("AndPredicate", r.cur, r.pos)), r.cur.xs[1], TRUE)]
  /\ UNCHANGED <<grammar, cache, calls, tinycl, example, interp>>

PredicateKeepsCursor(r, f) == Pop(r)

\* ctx.pos = start_pos, on every way out of a predicate
PredicateReset(r, f) == [Pop(r) EXCEPT !.pos = f.start]

AndPredicateResume(t) ==
  /\ Resuming(t, "AndPredicate")
  /\ LET r == th[t]
         f == Top(r)
         back == PredicateReset(r, f)
     IN th' = [th EXCEPT ![t] =
                 IF r.mode = "ret" THEN Return(back, Str(<<>>))
                 ELSE Raise(back, "Positive lookahead failed")]
  /\ UNCHANGED <<grammar, cache, calls, tinycl, example, interp>>

NotPredicateEnter(t) ==
  /\ Evaluating(t, "NotPredicate")
  /\ LET r == th[t]
     IN th' = [th EXCEPT ![t] =
                 Eval(Push(r, Frame("NotPredicate", r.cur, r.pos)), r.cur.xs[1], TRUE)]
  /\ UNCHANGED <<grammar, cache, calls, tinycl, example, interp>>

\* the ParseError raised inside the try block when the inner expression
\* matched is caught by the except ParseError clause of the same try
NotPredicateResume(t) ==
  /\ Resuming(t, "NotPredicate")
  /\ LET r == th[t]
         f == Top(r)
         back == PredicateReset(r, f)
     IN th' = [th EXCEPT ![t] = Return(back, Str(<<>>))]
  /\ UNCHANGED <<grammar, cache, calls, tinycl, example, interp>>

(***************************************************************************)
(* One step of a parse() call                                              *)
(***************************************************************************)
Step(t) ==
  \/ RuleEnter(t) \/ RuleHit(t) \/ RuleResume(t) \/ ReferenceParse(t)
  \/ LiteralStep(t) \/ RegexStep(t)
  \/ SequenceEnter(t) \/ SequenceResume(t)
  \/ ChoiceEnter(t) \/ ChoiceResume(t)
  \/ ZeroOrMoreEnter(t) \/ ZeroOrMoreResume(t)
  \/ OneOrMoreEnter(t) \/ OneOrMoreResume(t)
  \/ OptionalEnter(t) \/ OptionalResume(t)
  \/ AndPredicateEnter(t) \/ AndPredicateResume(t)
  \/ NotPredicateEnter(t) \/ NotPredicateResume(t)
  \/ ParseFinish(t)

\* the parser constructed for a reference call is dropped after the call
Discard(t) ==
  /\ t \in Freshers
  /\ th[t].mode = "done"
  /\ th' = [th EXCEPT ![t] = IdleThread]
  /\ cache' = [cache EXCEPT ![InstanceOf(t)] = EmptyCache]
  /\ UNCHANGED <<grammar, calls, tinycl, example, interp>>

\* no TinyCLParser.parse call has been made
NoNode == [node |-> "None", name |-> <<>>, value |-> 0, names |-> <<>>, kids |-> <<>>]

NoProgram == [stage |-> "idle", ast |-> NoNode, error |-> ""]

\* no parse call of the example parser has been made
NoExample == [made |-> "none", stage |-> "idle", text |-> <<>>, pos |-> 0,
              program |-> NoNode, outcome |-> "none"]

(***************************************************************************)
(* The TinyCL interpreter (src/tinycl/interpreter.py).  A value is an int, *)
(* a bool, a string or None.  An interpreter state st holds variables      *)
(* (name -> value), functions (name -> FunctionDecl node), the values      *)
(* printed, and how the statement or expression under way ended: status    *)
(* "ok", "return" (ReturnException with value) or the name of the          *)
(* exception raised.  log holds, for every _call_function that ran the     *)
(* body, the tables before the call and after it.                          *)
(***************************************************************************)
IntV(n) == [t |-> "int", n |-> n, s |-> <<>>]
BoolV(b) == [t |-> "bool", n |-> IF b THEN 1 ELSE 0, s |-> <<>>]
StrV(s) == [t |-> "str", n |-> 0, s |-> s]
NoneValue == [t |-> "none", n |-> 0, s |-> <<>>]

\* TinyCLInterpreter.__init__
NewInterpreter == [variables |-> <<>>, functions |-> <<>>, output |-> <<>>,
                   log |-> <<>>, status |-> "ok", value |-> NoneValue]

\* no interpreter has been constructed
NoRun == [stage |-> "idle", program |-> <<>>, pc |-> 0, st |-> NewInterpreter]

Init ==
  /\ grammar \in GrammarIds
  /\ cache = [i \in Instances |-> EmptyCache]
  /\ th = [t \in Threads |-> IdleThread]
  /\ calls = [t \in Threads |-> 0]
  /\ tinycl = NoProgram
  /\ example = NoExample
  /\ interp = NoRun

(***************************************************************************)
(* Spec: one thread makes parse() calls one after another on the parser P; *)
(* after each call the same text is parsed by a freshly constructed parser.*)
(***************************************************************************)
Call ==
  /\ calls["c1"] < MaxCalls
  /\ calls["r1"] = calls["c1"]
  /\ th["r1"].mode = "idle"
  /\ \E text \in TextsUpTo(MaxLen) : ParseStart("c1", text)
  /\ UNCHANGED <<tinycl, example, interp>>

FreshCall ==
  /\ th["r1"].mode = "new"
  /\ ParseStart("r1", th["c1"].text)
  /\ UNCHANGED <<tinycl, example, interp>>

Next ==
  \/ Call
  \/ Construct("r1")
  \/ FreshCall
  \/ Discard("r1")
  \/ \E t \in {"c1", "r1"} : Step(t)

Spec == Init /\ [][Next]_vars

(***************************************************************************)
(* SpecConc: two threads each make one parse() call on the parser P, the   *)
(* calls interleaved at every access to the shared rule_cache; afterwards  *)
(* each text is parsed alone by a freshly constructed parser.              *)
(***************************************************************************)
ConcCall(c) ==
  /\ calls[c] = 0
  /\ \E text \in TextsUpTo(MaxConcLen) : ParseStart(c, text)
  /\ UNCHANGED <<tinycl, example, interp>>

ConcFresh(r) ==
  /\ \A c \in Callers : th[c].mode = "done"
  /\ \A q \in Freshers : th[q].mode \in {"idle", "done"}
  /\ Construct(r)

ConcFreshCall(r) ==
  /\ th[r].mode = "new"
  /\ ParseStart(r, th[CallerOf(r)].text)
  /\ UNCHANGED <<tinycl, example, interp>>

NextConc ==
  \/ \E c \in Callers : ConcCall(c)
  \/ \E r \in Freshers : ConcFresh(r)
  \/ \E r \in Freshers : ConcFreshCall(r)
  \/ \E t \in Threads : Step(t)

SpecConc == Init /\ [][NextConc]_vars

\* a running thread keeps executing its parse() call
FairSpec == Spec /\ WF_vars(\E t \in {"c1", "r1"} : Step(t))

(***************************************************************************)
(* Properties of the parse engine                                          *)
(***************************************************************************)
Done(t) == th[t].mode = "done"

\* offsets of the non-whitespace characters at or after the cursor
Remaining(text, pos) == {i \in pos..(Len(text) - 1) : ~IsSpace(text[i + 1])}

\* C1: parse() returns a result only when the start rule has matched and,
\* whitespace skipped, the cursor equals len(text); when non-whitespace input
\* remains it raises ParseError with the offset of the first unconsumed
\* character and returns no result.
C1_FullMatchRequired ==
  [][\A t \in Threads :
       (Resuming(t, "parse") /\ th[t].mode = "ret" /\ th'[t].mode = "done") =>
         LET r == th[t]
             o == th'[t].outcome
             left == Remaining(r.text, r.pos)
         IN /\ left = {} => /\ o.kind = "ok"
                            /\ o.val = r.val
                            /\ th'[t].pos = Len(r.text)
            /\ left # {} => /\ o.kind = "ParseError"
                            /\ o.val = NoneV
                            /\ o.offset \in left
                            /\ \A i \in left : o.offset <= i
                            /\ th'[t].pos = o.offset]_vars

C1_Witness ==
  \E t \in Threads :
    /\ Done(t)
    /\ th[t].outcome.kind = "ParseError"
    /\ th[t].outcome.offset >= 1
    /\ th[t].outcome.offset < Len(th[t].text)

\* C2: every parse() call of a sequence of calls on one parser has the
\* outcome of the same call on a freshly constructed parser; the memo table
\* is empty when a call starts and no entry of an earlier call is served.
C2_SameAsFreshParser ==
  /\ (Done("c1") /\ Done("r1") /\ th["c1"].text = th["r1"].text) =>
       /\ th["c1"].outcome = th["r1"].outcome
       /\ th["c1"].pos = th["r1"].pos
  /\ th["c1"].readFrom \subseteq {<<"c1", calls["c1"]>>}
  /\ (th["c1"].mode = "call" /\ Len(th["c1"].stack) = 1) => cache["P"] = EmptyCache

C2_Witness ==
  /\ calls["c1"] = 2
  /\ Done("c1") /\ Done("r1")
  /\ th["c1"].outcome.kind = "ok"
  /\ th["c1"].readFrom # {}

\* C3: interleaved parse() calls on one parser each return the outcome they
\* return when run alone, and no memo entry written by one call is read by
\* the other.
C3_CallLocalMemo ==
  \A r \in Freshers :
    LET c == CallerOf(r)
    IN /\ th[c].readFrom \subseteq {<<c, calls[c]>>}
       /\ (Done(c) /\ Done(r) /\ th[c].text = th[r].text) =>
            th[c].outcome = th[r].outcome

IsTerminal(e) == e.k \in {"Literal", "Regex"}

TerminalParse(text, pos, e) ==
  IF e.k = "Literal" THEN LiteralParse(text, pos, e.lit)
  ELSE RegexParse(text, pos, e.cls)

\* C4: Choice tries its alternatives in declared order, each from the start
\* cursor, and returns the result and end cursor of the first that succeeds,
\* also when a later one would match more; when all fail it fails with the
\* cursor at its start.
C4_OrderedChoice ==
  [][\A t \in Threads :
       (Resuming(t, "Choice") /\ th'[t] # th[t]) =>
         LET r == th[t]
             f == Top(r)
             q == th'[t]
             alts == f.e.xs
             oks == {j \in 1..Len(alts) : TerminalParse(r.text, f.start, alts[j]).ok}
             j1 == CHOOSE j \in oks : \A k \in oks : j <= k
             m1 == TerminalParse(r.text, f.start, alts[j1])
         IN /\ r.mode = "ret" =>
                 q.mode = "ret" /\ q.val = r.val /\ q.pos = r.pos /\ q.stack = Pop(r).stack
            /\ (r.mode = "fail" /\ f.i < Len(alts)) =>
                 /\ q.mode = "eval" /\ q.cur = alts[f.i + 1] /\ q.pos = f.start
                 /\ Top(q).i = f.i + 1 /\ Top(q).start = f.start
            /\ (r.mode = "fail" /\ f.i = Len(alts)) =>
                 q.mode = "fail" /\ q.pos = f.start /\ q.stack = Pop(r).stack
            /\ ((\A j \in 1..Len(alts) : IsTerminal(alts[j])) /\ q.mode # "eval") =>
                 IF oks = {} THEN q.mode = "fail" /\ q.pos = f.start
                 ELSE q.mode = "ret" /\ q.val = Str(m1.val) /\ q.pos = m1.pos]_vars

\* Choice(Literal("a"), Literal("ab")) on "ab" has matched "a" and left "b"
C4_Witness ==
  /\ grammar = 2
  /\ Done("c1")
  /\ th["c1"].text = <<"a", "b">>
  /\ th["c1"].outcome = [kind |-> "ParseError", val |-> NoneV, offset |-> 1]

\* C5: NotPredicate(e) succeeds if and only if e fails at the cursor.
C5_NotPredicateInverts ==
  [][\A t \in Threads :
       (Resuming(t, "NotPredicate") /\ th'[t] # th[t]) =>
         /\ th[t].mode = "ret" => th'[t].mode = "fail"
         /\ th[t].mode = "fail" => (th'[t].mode = "ret" /\ th'[t].val = Str(<<>>))]_vars

\* the frames of the repetitions in progress
LoopFrames(t) ==
  {i \in 1..Len(th[t].stack) : th[t].stack[i].k \in {"ZeroOrMore", "OneOrMore"}}

C6_IterationBound ==
  \A t \in Threads : \A i \in LoopFrames(t) :
    LET f == th[t].stack[i]
    IN f.n <= Len(th[t].text) - f.origin + 1

\* C6: the loop of ZeroOrMore and of OneOrMore runs at most
\* len(text) - start + 1 times, whatever the inner expression, and every
\* parse() call returns.
C6_RepetitionTerminates ==
  /\ []C6_IterationBound
  /\ \A t \in {"c1", "r1"} : (th[t].mode = "call") ~> Done(t)

\* a repetition stops on an iteration that matched without consuming input
C6_Witness ==
  \E t \in Threads :
    /\ Resuming(t, "ZeroOrMore")
    /\ th[t].mode = "ret"
    /\ th[t].pos = Top(th[t]).start
    /\ Top(th[t]).n >= 2
    /\ Top(th[t]).n = Len(th[t].text) - Top(th[t]).origin + 1

(***************************************************************************)
(* AST nodes (src/tinycl/ast.py).  A node is [node, name, value, names,    *)
(* kids]: the class, the name or operator or text it carries, its number,  *)
(* its parameter names, and its child nodes in constructor order.  NoNode  *)
(* stands for None.                                                        *)
(***************************************************************************)
Node(class, name, kids) ==
  [node |-> class, name |-> name, value |-> 0, names |-> <<>>, kids |-> kids]

DigitValue(c) == CHOOSE d \in 0..9 : <<"0", "1", "2", "3", "4", "5", "6", "7", "8", "9">>[d + 1] = c

\* int(value) of a string of decimal digits
RECURSIVE IntOf(_)
IntOf(s) ==
  IF Len(s) = 0 THEN 0
  ELSE 10 * IntOf(SubSeq(s, 1, Len(s) - 1)) + DigitValue(s[Len(s)])

\* value[1:-1]
StripEnds(s) == SubSeq(s, 2, Len(s) - 1)

ProgramNode(statements) == Node("Program", <<>>, statements)
VariableDeclNode(name, value) == Node("VariableDecl", name, <<value>>)
ConstantDeclNode(name, value) == Node("ConstantDecl", name, <<value>>)
AssignmentNode(name, value) == Node("Assignment", name, <<value>>)
IfNode(condition, then_block, else_block) == Node("If", <<>>, <<condition, then_block, else_block>>)
WhileNode(condition, body) == Node("While", <<>>, <<condition, body>>)
PrintNode(expression) == Node("Print", <<>>, <<expression>>)
ReturnNode(expression) == Node("Return", <<>>, <<expression>>)
BlockNode(statements) == Node("Block", <<>>, statements)
FunctionDeclNode(name, parameters, body) ==
  [Node("FunctionDecl", name, <<body>>) EXCEPT !.names = parameters]
FunctionCallNode(name, arguments) == Node("FunctionCall", name, arguments)
FunctionCallExprNode(name, arguments) == Node("FunctionCallExpr", name, arguments)
BinaryOpNode(left, operator, right) == Node("BinaryOp", operator, <<left, right>>)
UnaryOpNode(operator, operand) == Node("UnaryOp", operator, <<operand>>)
NumberNode(value) == [Node("Number", <<>>, <<>>) EXCEPT !.value = IntOf(value)]
StringNode(value) == Node("String", StripEnds(value), <<>>)
CharacterNode(value) == Node("Character", value, <<>>)
\* value == "true", kept as 1 (True) or 0 (False)
BooleanNode(value) ==
  [Node("Boolean", <<>>, <<>>) EXCEPT !.value = IF value = <<"t", "r", "u", "e">> THEN 1 ELSE 0]
IdentifierNode(name) == Node("Identifier", name, <<>>)
ArrayAccessNode(array, index) == Node("ArrayAccess", <<>>, <<array, index>>)
ArrayLiteralNode(elements) == Node("ArrayLiteral", <<>>, elements)

(***************************************************************************)
(* Python values of the match tree as the builders test them               *)
(***************************************************************************)
IsList(v) == v.t = "list"
IsStr(v) == v.t = "str"
\* not v: None, "" and [] are false
Falsy(v) == v = NoneV \/ v = Str(<<>>) \/ v = List(<<>>)
\* v == "s" for a string constant s
Is(v, s) == v = Str(s)
\* seq[i:] and seq[i:j] with 0-based bounds
From(l, i) == SubSeq(l, i + 1, Len(l))
Slice(l, i, j) == SubSeq(l, i + 1, j)

isdigit(s) == Len(s) > 0 /\ \A i \in 1..Len(s) : s[i] \in Digits
isalpha(s) == Len(s) > 0 /\ \A i \in 1..Len(s) : s[i] \in Letters
startswith(s, c) == Len(s) > 0 /\ s[1] = c
endswith(s, c) == Len(s) > 0 /\ s[Len(s)] = c

(***************************************************************************)
(* TinyCLParser._flatten_expression                                        *)
(***************************************************************************)
RECURSIVE flatten_expression(_)
RECURSIVE FlattenItems(_, _)

flatten_expression(expr) ==
  IF ~IsList(expr) THEN expr
  ELSE IF Len(expr.l) = 1 THEN flatten_expression(expr.l[1])
  ELSE List(FlattenItems(expr.l, 1))

\* the loop over the items of a list of several elements, from item i on
FlattenItems(items, i) ==
  IF i > Len(items) THEN <<>>
  ELSE LET item == items[i]
           flattened == flatten_expression(item)
           part == IF ~IsList(item) THEN <<item>>
                   ELSE IF IsList(flattened) THEN flattened.l
                   ELSE <<flattened>>
       IN part \o FlattenItems(items, i + 1)

(***************************************************************************)
(* The expression builders of TinyCLParser.  Every builder takes a value   *)
(* of the match tree (a token or a list) and returns a node or NoNode.     *)
(* The six binary levels share one body; level lv scans for the operators  *)
(* LevelOps[lv], builds the left part one level down and the right part at *)
(* its own level.                                                          *)
(***************************************************************************)
LevelOps == <<
  {<<"|", "|">>},
  {<<"&", "&">>},
  {<<"!", "=">>, <<"=", "=">>},
  {<<"<", "=">>, <<">", "=">>, <<"<">>, <<">">>, <<"!", "=">>, <<"=", "=">>},
  {<<"+">>, <<"-">>},
  {<<"*">>, <<"/">>}
>>

RECURSIVE build_expression(_)
RECURSIVE build_level(_, _)
RECURSIVE build_below(_, _)
RECURSIVE ScanLevel(_, _, _)
RECURSIVE build_unary(_)
RECURSIVE build_postfix(_)
RECURSIVE ScanPostfix(_, _)
RECURSIVE build_primary(_)
RECURSIVE build_arguments(_)
RECURSIVE ArgumentNodes(_, _)

\* _build_expression
build_expression(expression) ==
  IF Falsy(expression) THEN NoNode
  ELSE build_level(1, flatten_expression(expression))

\* _build_logical_or, _build_logical_and, _build_equality, _build_comparison,
\* _build_term, _build_factor as levels 1 to 6
build_level(lv, expr) ==
  IF ~IsList(expr) THEN build_below(lv, expr)
  ELSE IF Len(expr.l) = 1 THEN build_level(lv, expr.l[1])
  ELSE IF Len(expr.l) = 0 THEN NoNode
  ELSE ScanLevel(lv, expr.l, 1)

\* the builder of the next level down
build_below(lv, expr) ==
  IF lv < Len(LevelOps) THEN build_level(lv + 1, expr) ELSE build_unary(expr)

\* for i in range(len(expr)), from the i-th element on (1-based)
ScanLevel(lv, expr, i) ==
  IF i > Len(expr) THEN build_below(lv, List(expr))
  ELSE LET left_part == SubSeq(expr, 1, i - 1)
           right_part == SubSeq(expr, i + 1, Len(expr))
           left == build_below(lv, List(left_part))
           right == build_level(lv, List(right_part))
       IN IF /\ IsStr(expr[i]) /\ expr[i].s \in LevelOps[lv]
             /\ left_part # <<>> /\ right_part # <<>>
             /\ left # NoNode /\ right # NoNode
          THEN BinaryOpNode(left, expr[i].s, right)
          ELSE ScanLevel(lv, expr, i + 1)

\* _build_unary
build_unary(expr) ==
  IF ~IsList(expr) THEN build_postfix(expr)
  ELSE IF Len(expr.l) = 1 THEN build_unary(expr.l[1])
  ELSE IF Len(expr.l) >= 2 /\ (Is(expr.l[1], <<"!">>) \/ Is(expr.l[1], <<"-">>))
       THEN UnaryOpNode(expr.l[1].s, build_unary(List(From(expr.l, 1))))
       ELSE build_postfix(expr)

\* _build_postfix
build_postfix(expr) ==
  IF ~IsList(expr) THEN build_primary(expr)
  ELSE IF Len(expr.l) = 1 THEN build_postfix(expr.l[1])
  ELSE ScanPostfix(expr.l, 0)

\* for i in range(len(expr)), from index i on (0-based)
ScanPostfix(expr, i) ==
  IF i >= Len(expr) THEN build_primary(List(expr))
  ELSE IF Is(expr[i + 1], <<"[">>) /\ i + 2 < Len(expr) /\ Is(expr[i + 3], <<"]">>)
       THEN ArrayAccessNode(build_primary(List(Slice(expr, 0, i))),
                            build_expression(expr[i + 2]))
       ELSE ScanPostfix(expr, i + 1)

\* _build_primary
build_primary(expr) ==
  IF ~IsList(expr)
  THEN IF ~IsStr(expr) THEN NoNode
       ELSE IF isdigit(expr.s) THEN NumberNode(expr.s)
       ELSE IF startswith(expr.s, "\"") /\ endswith(expr.s, "\"") THEN StringNode(expr.s)
       ELSE IF startswith(expr.s, "'") /\ endswith(expr.s, "'")
            THEN CharacterNode(StripEnds(expr.s))
       ELSE IF expr.s = <<"t", "r", "u", "e">> THEN BooleanNode(<<"t", "r", "u", "e">>)
       ELSE IF expr.s = <<"f", "a", "l", "s", "e">>
            THEN BooleanNode(<<"f", "a", "l", "s", "e">>)
       ELSE IF isalpha(expr.s) \/ startswith(expr.s, "_") THEN IdentifierNode(expr.s)
       ELSE NoNode
  ELSE LET e == expr.l
           n == Len(e)
       IN IF n = 1 THEN build_primary(e[1])
          ELSE IF n >= 3 /\ Is(e[1], <<"(">>) /\ Is(e[n], <<")">>)
               THEN build_expression(List(Slice(e, 1, n - 1)))
          ELSE IF n >= 3 /\ Is(e[2], <<"(">>) /\ Is(e[n], <<")">>)
               THEN FunctionCallExprNode(e[1].s,
                      build_arguments(List(IF n > 3 THEN Slice(e, 2, n - 1) ELSE <<>>)))
          ELSE IF n >= 2 /\ Is(e[1], <<"[">>) /\ Is(e[n], <<"]">>)
               THEN ArrayLiteralNode(
                      build_arguments(List(IF n > 2 THEN Slice(e, 1, n - 1) ELSE <<>>)))
          ELSE IF n > 0 THEN build_primary(e[1]) ELSE NoNode

\* _build_arguments: the list of the nodes built from the elements
build_arguments(arguments) ==
  IF Falsy(arguments) THEN <<>>
  ELSE ArgumentNodes(arguments.l, 1)

\* for arg in arguments, from the i-th element on
ArgumentNodes(arguments, i) ==
  IF i > Len(arguments) THEN <<>>
  ELSE LET arg == arguments[i]
           node == build_expression(arg)
       IN (IF ~Is(arg, <<",">>) /\ node # NoNode THEN <<node>> ELSE <<>>)
          \o ArgumentNodes(arguments, i + 1)

(***************************************************************************)
(* The statement builders of TinyCLParser                                  *)
(***************************************************************************)
\* param.strip() is not empty
NonBlank(s) == \E i \in 1..Len(s) : ~IsSpace(s[i])

\* _build_parameters: the names among the flattened tokens
build_parameters(parameters) ==
  LET flattened == flatten_expression(parameters)
      names == IF IsList(flattened) THEN flattened.l ELSE <<flattened>>
      keep == [i \in 1..Len(names) |->
                 IsStr(names[i]) /\ names[i].s # <<",">> /\ NonBlank(names[i].s)]
      F[i \in 0..Len(names)] ==
        IF i = 0 THEN <<>>
        ELSE IF keep[i] THEN Append(F[i - 1], names[i].s) ELSE F[i - 1]
  IN IF Falsy(parameters) THEN <<>> ELSE F[Len(names)]

RECURSIVE build_statements(_)
RECURSIVE StatementNodes(_, _)
RECURSIVE build_statement(_)
RECURSIVE build_block(_)

\* _build_statements
build_statements(statements) ==
  IF Falsy(statements) THEN <<>>
  ELSE IF IsList(statements) /\ Len(statements.l) = 1 /\ IsList(statements.l[1])
       THEN StatementNodes(statements.l[1].l, 1)
       ELSE StatementNodes(statements.l, 1)

\* for statement in statements, from the i-th element on
StatementNodes(statements, i) ==
  IF i > Len(statements) THEN <<>>
  ELSE LET node == build_statement(statements[i])
       IN (IF node # NoNode THEN <<node>> ELSE <<>>) \o StatementNodes(statements, i + 1)

\* _build_statement
build_statement(statement) ==
  IF Falsy(statement) \/ ~IsList(statement) THEN NoNode
  ELSE LET s == statement.l
           n == Len(s)
           first == s[1]
       IN IF Is(first, <<"f", "u", "n", "c">>)
          THEN FunctionDeclNode(s[2].s,
                 IF n > 3 /\ ~Is(s[4], <<")">>) THEN build_parameters(s[4]) ELSE <<>>,
                 build_block(s[n]))
          ELSE IF Is(first, <<"v", "a", "r">>)
          THEN VariableDeclNode(s[2].s, build_expression(s[4]))
          ELSE IF Is(first, <<"c", "o", "n", "s", "t">>)
          THEN ConstantDeclNode(s[2].s, build_expression(s[4]))
          ELSE IF Is(first, <<"i", "f">>)
          THEN LET else_part == s[6]
                   else_block ==
                     IF n > 5 /\ else_part # NoneV /\ IsList(else_part)
                        /\ Len(else_part.l) > 1
                        /\ Is(else_part.l[1], <<"e", "l", "s", "e">>)
                     THEN else_part.l[2]
                     ELSE NoneV
               IN IfNode(build_expression(s[3]), build_block(s[5]),
                         IF Falsy(else_block) THEN NoNode ELSE build_block(else_block))
          ELSE IF Is(first, <<"w", "h", "i", "l", "e">>)
          THEN WhileNode(build_expression(s[3]), build_block(s[5]))
          ELSE IF Is(first, <<"p", "r", "i", "n", "t">>)
          THEN PrintNode(build_expression(s[3]))
          ELSE IF Is(first, <<"r", "e", "t", "u", "r", "n">>)
          THEN LET expression == IF n > 2 /\ ~Is(s[2], <<";">>) THEN s[2] ELSE NoneV
               IN ReturnNode(IF Falsy(expression) THEN NoNode
                             ELSE build_expression(expression))
          ELSE IF Is(first, <<"{">>)
          THEN build_block(statement)
          ELSE IF IsStr(first) /\ (isalpha(first.s) \/ first.s = <<"_">>)
          THEN IF n > 1 /\ Is(s[2], <<"=">>)
               THEN AssignmentNode(first.s, build_expression(s[3]))
               ELSE IF n > 1 /\ Is(s[2], <<"(">>)
               THEN FunctionCallNode(first.s,
                      build_arguments(IF n > 2 /\ ~Is(s[3], <<")">>) THEN s[3]
                                      ELSE List(<<>>)))
               ELSE NoNode
          ELSE NoNode

\* _build_block
build_block(block) ==
  IF Falsy(block) THEN BlockNode(<<>>)
  ELSE IF IsList(block)
       THEN LET b == block.l
                n == Len(b)
            IN IF n >= 3 /\ Is(b[1], <<"{">>) /\ Is(b[n], <<"}">>)
               THEN BlockNode(build_statements(List(Slice(b, 1, n - 1))))
               ELSE BlockNode(build_statements(block))
       ELSE LET statement_node == build_statement(block)
            IN BlockNode(IF statement_node # NoNode THEN <<statement_node>> ELSE <<>>)

\* _build_ast
build_ast(parse_result) ==
  IF parse_result = NoneV THEN NoNode
  ELSE ProgramNode(build_statements(parse_result))

(***************************************************************************)
(* TinyCL sources.  An expression under test E is compiled as the program  *)
(*   var x=E;var y=0;                                                      *)
(* E is a chain of operands and binary operators, a chain with one         *)
(* parenthesized pair, an indexed name or a call.                          *)
(***************************************************************************)
MaxOperands == 3
MaxIndices == 2
MaxArgs == 2
MaxStatements == 2

Operators == {<<"|", "|">>, <<"&", "&">>, <<"=", "=">>, <<"<">>,
              <<"+">>, <<"-">>, <<"*">>, <<"/">>}

\* the operands of a chain, by position
OperandLists == <<
  << <<"2">>, <<"3">>, <<"4">>, <<"1", "0">> >>,
  << <<"a">>, <<"b">>, <<"c">>, <<"d">> >>,
  << <<"a">>, <<"x", "1">>, <<"2">>, <<"m", "y", "_", "v", "a", "r">> >>
>>

OperandAt(list, i) == list[((i - 1) % Len(list)) + 1]

\* x op y
Binary(x, op, y) == x \o <<" ">> \o op \o <<" ">> \o y

Parenthesized(e) == <<"(">> \o e \o <<")">>

\* the operators between names, and inside and beside parentheses
FewOperators == {<<"+">>, <<"*">>, <<"<">>}

OperatorsOf(l) == IF l = 1 THEN Operators ELSE FewOperators

\* the chains of n operands of list l: o1 op1 o2 ... op(n-1) on
RECURSIVE Chains(_, _)
Chains(l, n) ==
  IF n = 1 THEN {OperandAt(OperandLists[l], 1)}
  ELSE {Binary(c, op, OperandAt(OperandLists[l], n)) :
          c \in Chains(l, n - 1), op \in OperatorsOf(l)}

\* (o1 op1 o2) op2 o3 and o1 op1 (o2 op2 o3)
ParenLeft(list, op1, op2) ==
  Binary(Parenthesized(Binary(list[1], op1, list[2])), op2, list[3])

ParenRight(list, op1, op2) ==
  Binary(list[1], op1, Parenthesized(Binary(list[2], op2, list[3])))

IndexTokens == {<<"0">>, <<"1">>, <<"i">>}

\* the sequences i1, ..., ik of index tokens
RECURSIVE IndexLists(_)
IndexLists(k) ==
  IF k = 0 THEN {<<>>}
  ELSE {Append(is, i) : is \in IndexLists(k - 1), i \in IndexTokens}

\* a[i1]...[ik]
RECURSIVE Indexed(_)
Indexed(is) ==
  IF is = <<>> THEN <<"a">>
  ELSE Indexed(SubSeq(is, 1, Len(is) - 1)) \o <<"[">> \o is[Len(is)] \o <<"]">>

ArgumentTokens == {<<"1">>, <<"a">>}

\* the argument lists a1,...,ak
RECURSIVE ArgumentLists(_)
ArgumentLists(k) ==
  IF k = 0 THEN {<<>>}
  ELSE IF k = 1 THEN ArgumentTokens
  ELSE {l \o <<",">> \o a : l \in ArgumentLists(k - 1), a \in ArgumentTokens}

\* f(a1,...,ak)
CallOf(args) == <<"f", "(">> \o args \o <<")">>

\* the prefix operators of the rule Unary
UnaryPrefixes == {<<"!">>, <<"-">>}

\* p a op b and a op p b: a prefix operator on the left and on the right operand
PrefixFirst(p, op) == p \o Binary(<<"a">>, op, <<"b">>)

PrefixSecond(op, p) == Binary(<<"a">>, op, p \o <<"b">>)

UnaryExpressions ==
  {PrefixFirst(p, op) : p \in UnaryPrefixes, op \in Operators}
    \cup {PrefixSecond(op, p) : op \in Operators, p \in UnaryPrefixes}

\* the operators of the rules Equality and Comparison
EqualityOps == {<<"!", "=">>, <<"=", "=">>}

ComparisonOps == {<<"<", "=">>, <<">", "=">>, <<"<">>, <<">">>}

\* a cmp b eq c, a eq b cmp c and (a eq1 b eq2 c)
RelationalExpressions ==
  {Binary(Binary(<<"a">>, cmp, <<"b">>), eq, <<"c">>) :
     cmp \in ComparisonOps, eq \in EqualityOps}
    \cup {Binary(Binary(<<"a">>, eq, <<"b">>), cmp, <<"c">>) :
            eq \in EqualityOps, cmp \in ComparisonOps}
    \cup {Parenthesized(Binary(Binary(<<"a">>, eq1, <<"b">>), eq2, <<"c">>)) :
            eq1 \in EqualityOps, eq2 \in EqualityOps}

\* one token of each terminal kind of the rule Primary; the identifiers are
\* matches of [a-zA-Z_][a-zA-Z0-9_]*
IdentifierTokens == {<<"a", "b">>, <<"x", "1">>, <<"m", "y", "_", "v", "a", "r">>,
                     <<"_", "a">>, <<"A", "9">>}

PrimaryTokens ==
  {<<"1", "2">>, <<"\"", "s", "\"">>, <<"'", "c", "'">>, <<"t", "r", "u", "e">>,
   <<"f", "a", "l", "s", "e">>} \cup IdentifierTokens

\* an argument with an operator
OperatorArgument == <<"a", "+", "1">>

\* the tuples of k arguments
RECURSIVE ArgumentTuples(_)
ArgumentTuples(k) ==
  IF k = 0 THEN {<<>>}
  ELSE {Append(l, a) : l \in ArgumentTuples(k - 1),
                       a \in ArgumentTokens \cup {OperatorArgument}}

\* a1,...,ak
RECURSIVE Joined(_)
Joined(args) ==
  IF args = <<>> THEN <<>>
  ELSE IF Len(args) = 1 THEN args[1]
  ELSE Joined(SubSeq(args, 1, Len(args) - 1)) \o <<",">> \o args[Len(args)]

CallArguments == UNION {ArgumentTuples(k) : k \in 0..MaxArgs}

\* 10 - 3 - 2
Examples == {Binary(Binary(<<"1", "0">>, <<"-">>, <<"3">>), <<"-">>, <<"2">>)}

Expressions ==
  UNION {
    UNION {Chains(l, n) : l \in DOMAIN OperandLists, n \in 1..MaxOperands},
    {ParenLeft(OperandLists[l], op1, op2) :
       l \in {1, 2}, op1 \in FewOperators, op2 \in FewOperators},
    {ParenRight(OperandLists[l], op1, op2) :
       l \in {1, 2}, op1 \in FewOperators, op2 \in FewOperators},
    Examples,
    UnaryExpressions,
    RelationalExpressions,
    PrimaryTokens,
    {CallOf(Joined(args)) : args \in CallArguments},
    {Indexed(is) : is \in UNION {IndexLists(k) : k \in 1..MaxIndices}},
    {CallOf(args) : args \in UNION {ArgumentLists(k) : k \in 0..MaxArgs}} }

VarX(e) == <<"v", "a", "r", " ", "x", "=">> \o e \o <<";">>

VarY == <<"v", "a", "r", " ", "y", "=", "0", ";">>

\* n statements var y=0;
RECURSIVE Padding(_)
Padding(n) == IF n = 0 THEN <<>> ELSE Padding(n - 1) \o VarY

\* the program that declares x as e and then y
ProgramOf(e) == VarX(e) \o VarY

\* var x = 1 + 2 * 3;
SingleDecl == <<"v", "a", "r", " ", "x", " ", "=", " ", "1", " ", "+", " ", "2",
                " ", "*", " ", "3", ";">>

\* the program f(a1,...,ak);var y=0;
CallStatementOf(args) == CallOf(Joined(args)) \o <<";">> \o VarY

Programs == {ProgramOf(e) : e \in Expressions}
            \cup {CallStatementOf(args) : args \in CallArguments}
            \cup {Padding(n) : n \in 0..MaxStatements} \cup {SingleDecl}

(***************************************************************************)
(* TinyCLParser.parse on the parser T                                      *)
(***************************************************************************)
\* result = super().parse(text), up to the call of _parse_rule on Program
Compile ==
  /\ tinycl.stage = "idle"
  /\ \E text \in Programs : ParseStart("tc", text)
  /\ tinycl' = [tinycl EXCEPT !.stage = "parsing"]
  /\ UNCHANGED <<example, interp>>

\* the parse methods that the expressions of the TinyCL grammar reach
CompileStep ==
  \/ RuleEnter("tc") \/ RuleHit("tc") \/ RuleResume("tc") \/ ReferenceParse("tc")
  \/ LiteralStep("tc") \/ RegexStep("tc")
  \/ SequenceEnter("tc") \/ SequenceResume("tc")
  \/ ChoiceEnter("tc") \/ ChoiceResume("tc")
  \/ ZeroOrMoreEnter("tc") \/ ZeroOrMoreResume("tc")
  \/ OptionalEnter("tc") \/ OptionalResume("tc")
  \/ ParseFinish("tc")

\* return self._build_ast(result); an exception of super().parse propagates
BuildAst ==
  /\ tinycl.stage = "parsing"
  /\ th["tc"].mode = "done"
  /\ tinycl' = IF th["tc"].outcome.kind = "ok"
               THEN [tinycl EXCEPT !.stage = "built",
                                   !.ast = build_ast(th["tc"].outcome.val)]
               ELSE [tinycl EXCEPT !.stage = "raised",
                                   !.error = th["tc"].outcome.kind]
  /\ UNCHANGED <<grammar, cache, th, calls, example, interp>>

InitAst == Init /\ grammar = 1

NextAst ==
  \/ Compile
  \/ CompileStep
  \/ BuildAst

SpecAst == InitAst /\ [][NextAst]_vars

(***************************************************************************)
(* Properties of the AST reconstruction                                    *)
(***************************************************************************)
\* TinyCLParser.parse has returned the AST of the program var x=e;var y=0;
Compiled(e) == tinycl.stage = "built" /\ th["tc"].text = ProgramOf(e)

\* the value of the first statement of the program built
DeclaredX == tinycl.ast.kids[1].kids[1]

\* the node of an operand token: a Number rule match or an Identifier rule match
Operand(token) == IF isdigit(token) THEN NumberNode(token) ELSE IdentifierNode(token)

\* the precedence levels of the grammar rules LogicalOr to Factor, lowest first
GrammarLevels == <<
  {<<"|", "|">>},
  {<<"&", "&">>},
  {<<"!", "=">>, <<"=", "=">>},
  {<<"<", "=">>, <<">", "=">>, <<"<">>, <<">">>},
  {<<"+">>, <<"-">>},
  {<<"*">>, <<"/">>}
>>

LevelOf(op) == CHOOSE lv \in DOMAIN GrammarLevels : op \in GrammarLevels[lv]

\* (a op1 b) op2 c and a op1 (b op2 c) over the first three operands of a list
LeftNested(list, op1, op2) ==
  BinaryOpNode(BinaryOpNode(Operand(list[1]), op1, Operand(list[2])), op2, Operand(list[3]))

RightNested(list, op1, op2) ==
  BinaryOpNode(Operand(list[1]), op1, BinaryOpNode(Operand(list[2]), op2, Operand(list[3])))

Chain3(list, op1, op2) == Binary(Binary(list[1], op1, list[2]), op2, list[3])

\* C7: the AST of an unparenthesized chain a op1 b op2 c of numbers or of
\* plain names whose operators are of one precedence level is
\* BinaryOp(BinaryOp(a, op1, b), op2, c); 10 - 3 - 2 is built as (10 - 3) - 2.
C7_LeftAssociative ==
  /\ \A l \in {1, 2} : \A op1 \in OperatorsOf(l) : \A op2 \in OperatorsOf(l) :
       (LevelOf(op1) = LevelOf(op2) /\ Compiled(Chain3(OperandLists[l], op1, op2)))
         => DeclaredX = LeftNested(OperandLists[l], op1, op2)
  /\ \A e \in Examples :
       Compiled(e) => DeclaredX = LeftNested(<< <<"1", "0">>, <<"3">>, <<"2">> >>, <<"-">>, <<"-">>)

\* C8: the AST of an unparenthesized chain a op1 b op2 c over literal or
\* identifier operands whose operators are of different precedence levels
\* groups the operator of the higher level first: a op1 (b op2 c) when op2 is
\* of the higher level, (a op1 b) op2 c when op1 is.
C8_PrecedenceAcrossLevels ==
  \A l \in DOMAIN OperandLists : \A op1 \in OperatorsOf(l) : \A op2 \in OperatorsOf(l) :
    (LevelOf(op1) # LevelOf(op2) /\ Compiled(Chain3(OperandLists[l], op1, op2)))
      => DeclaredX = IF LevelOf(op2) > LevelOf(op1)
                     THEN RightNested(OperandLists[l], op1, op2)
                     ELSE LeftNested(OperandLists[l], op1, op2)

\* C9: a parenthesized sub-expression is one whole operand of the operator
\* beside it: (a op1 b) op2 c is built as BinaryOp(BinaryOp(a, op1, b), op2, c)
\* and a op1 (b op2 c) as BinaryOp(a, op1, BinaryOp(b, op2, c)), whatever the
\* levels of the operators.
C9_ParenthesizedOperand ==
  \A l \in {1, 2} : \A op1 \in FewOperators : \A op2 \in FewOperators :
    /\ Compiled(ParenLeft(OperandLists[l], op1, op2))
         => DeclaredX = LeftNested(OperandLists[l], op1, op2)
    /\ Compiled(ParenRight(OperandLists[l], op1, op2))
         => DeclaredX = RightNested(OperandLists[l], op1, op2)

\* ArrayAccess(...ArrayAccess(ArrayAccess(a, i1), i2)..., ik)
RECURSIVE NestedAccess(_)
NestedAccess(is) ==
  IF is = <<>> THEN IdentifierNode(<<"a">>)
  ELSE ArrayAccessNode(NestedAccess(SubSeq(is, 1, Len(is) - 1)), Operand(is[Len(is)]))

\* C10: a[i1][i2]...[ik] is built as nested ArrayAccess nodes in left-to-right
\* order, no index dropped; a[0][1] is ArrayAccess(ArrayAccess(a, 0), 1).
C10_ChainedIndices ==
  \A k \in 1..MaxIndices : \A is \in IndexLists(k) :
    Compiled(Indexed(is)) => DeclaredX = NestedAccess(is)

\* the nodes of n statements var y=0;
DeclaredYs(n) == [i \in 1..n |-> VariableDeclNode(<<"y">>, NumberNode(<<"0">>))]

\* C11: a source of n top-level statements is built as a Program node whose
\* statement list holds the n statement nodes in source order, none dropped,
\* also for n = 0 and n = 1; var x = 1 + 2 * 3; is built as a Program whose
\* single statement is VariableDecl x = BinaryOp(1, +, BinaryOp(2, *, 3)).
C11_ProgramStatements ==
  /\ \A n \in 0..MaxStatements :
       (tinycl.stage = "built" /\ th["tc"].text = Padding(n))
         => tinycl.ast = ProgramNode(DeclaredYs(n))
  /\ (tinycl.stage = "built" /\ th["tc"].text = SingleDecl)
       => tinycl.ast = ProgramNode(<<VariableDeclNode(<<"x">>,
                         BinaryOpNode(NumberNode(<<"1">>), <<"+">>,
                           BinaryOpNode(NumberNode(<<"2">>), <<"*">>,
                                        NumberNode(<<"3">>))))>>)

(***************************************************************************)
(* SpecLazy: the parser P and the parser D are constructed, then a text is *)
(* parsed by P and, after that call, by D.                                 *)
(***************************************************************************)
\* every Reference of the grammar names one of its rules
GrammarChecked(g) == UndefinedNames(g) = {}

\* GrammarNode.__init__ stores the rules as given
GrammarAccepted(g) == TRUE

\* GrammarNode(name, rules), PEGParser.__init__ and self.grammar = grammar
Build(t) ==
  /\ th[t].mode = "idle"
  /\ calls[t] = 0
  /\ th' = [th EXCEPT ![t] =
              IF GrammarAccepted(GrammarOf(t))
              THEN [IdleThread EXCEPT !.mode = "new"]
              ELSE Crash(th[t], "GrammarError")]
  /\ cache' = [cache EXCEPT ![InstanceOf(t)] = EmptyCache]
  /\ UNCHANGED <<grammar, calls, tinycl, example, interp>>

\* the parser was constructed and is not inside a call
Ready(t) == th[t].mode = "new" \/ (th[t].mode = "done" /\ calls[t] > 0)

LazyCall ==
  /\ calls["c1"] = 0
  /\ Ready("c1") /\ Ready("d1")
  /\ \E text \in TextsUpTo(MaxLen) : ParseStart("c1", text)
  /\ UNCHANGED <<tinycl, example, interp>>

TwinCall ==
  /\ calls["d1"] < calls["c1"]
  /\ Ready("c1") /\ Ready("d1")
  /\ ParseStart("d1", th["c1"].text)
  /\ UNCHANGED <<tinycl, example, interp>>

NextLazy ==
  \/ Build("c1")
  \/ Build("d1")
  \/ LazyCall
  \/ TwinCall
  \/ \E t \in {"c1", "d1"} : Step(t)

SpecLazy == Init /\ [][NextLazy]_vars

\* a Reference about to be looked up whose name no rule defines
AtUndefined(t) ==
  /\ Evaluating(t, "Reference")
  /\ th[t].cur.name \notin RuleNames(GrammarOf(t))

\* constructing a parser for a grammar raises nothing
C12_Constructed ==
  \A t \in {"c1", "d1"} : calls[t] = 0 => th[t].mode \in {"idle", "new"}

\* the outcome of a call that met no undefined Reference is the outcome of
\* the same call under the grammar in which the name is defined
C12_AsIfDefined ==
  (/\ Done("c1") /\ Done("d1")
   /\ calls["c1"] = calls["d1"]
   /\ ~th["c1"].undefined)
    => /\ th["c1"].outcome = th["d1"].outcome
       /\ th["c1"].pos = th["d1"].pos

\* 'Undefined rule' is raised by the lookup of an undefined name, as a
\* ParseError at the cursor of the lookup, and by nothing else
C12_RaisedAtLookup ==
  \A t \in {"c1", "d1"} :
    /\ (th'[t].mode = "fail" /\ th'[t].err = "Undefined rule" /\ th[t].mode # "fail")
         => AtUndefined(t)
    /\ (AtUndefined(t) /\ ~th[t].direct /\ th'[t] # th[t])
         => /\ th'[t].mode = "fail"
            /\ th'[t].err = "Undefined rule"
            /\ th'[t].pos = th[t].pos
            /\ th'[t].stack = th[t].stack

\* C12: constructing a grammar and its parser never fails, also when a
\* Reference names a rule that no rule defines; 'undefined rule' is raised as
\* a ParseError only at the moment matching looks that Reference up, and a
\* call whose match never reaches it has the outcome and final cursor it has
\* when the name is defined.
C12_UndefinedRuleIsLazy ==
  /\ [](C12_Constructed /\ C12_AsIfDefined)
  /\ [][C12_RaisedAtLookup]_vars

\* S <- ('a' / U) 'b'* on "ab": matched, U never looked up
C12_Witness ==
  /\ grammar = 9
  /\ Done("c1") /\ Done("d1")
  /\ calls["c1"] = calls["d1"]
  /\ th["c1"].text = <<"a", "b">>
  /\ th["c1"].outcome.kind = "ok"
  /\ ~th["c1"].undefined

\* the same grammar on "b": U looked up, the call fails where the call with
\* U defined succeeds
C12_Reached ==
  /\ grammar = 9
  /\ Done("c1") /\ Done("d1")
  /\ calls["c1"] = calls["d1"]
  /\ th["c1"].text = <<"b">>
  /\ th["c1"].undefined
  /\ th["c1"].outcome.kind = "ParseError"
  /\ th["d1"].outcome.kind = "ok"

\* C13: a parse() call on a grammar built from the ten expression kinds, a
\* Reference inside a predicate included, ends by returning a match result
\* or by raising ParseError; no exception of another type leaves the call.
C13_FailureIsAValue ==
  \A t \in {"c1", "r1"} :
    Done(t) => th[t].outcome.kind \in {"ok", "ParseError"}

(***************************************************************************)
(* The example TinyCL parser (src/examples/tinycl/tinycl_parser.py): a     *)
(* hand-written recursive descent over a ParserContext.  Every parse       *)
(* method yields [node, pos]: the node it returns (NoNode for None) and    *)
(* the cursor it leaves.                                                   *)
(***************************************************************************)
Result(node, pos) == [node |-> node, pos |-> pos]

\* ctx.peek(): the character at the cursor, or None at the end of input
peek(text, pos) == IF eof(text, pos) THEN "None" ELSE text[pos + 1]

\* the example parser's skip_whitespace: whitespace and # comments
Example_skip_whitespace(text, pos) == TinyCL_skip_whitespace(text, pos)

\* Rule(name, *exprs) as the example grammar calls it: the number of
\* expressions passed to each Rule of the rules list, in order
ExampleRuleArgs == <<1, 3, 7, 5, 4, 7, 5, 5, 3, 2, 3, 6, 5, 5, 6, 1, 1, 1>>

\* Rule.__init__(self, name, expr) takes one expression
RuleInit(n) == IF n = 1 THEN "ok" ELSE "TypeError"

\* TinyCLParser.__init__: the rules list is built element by element
RECURSIVE ExampleInit(_)
ExampleInit(i) ==
  IF i > Len(ExampleRuleArgs) THEN "ok"
  ELSE IF RuleInit(ExampleRuleArgs[i]) # "ok" THEN RuleInit(ExampleRuleArgs[i])
  ELSE ExampleInit(i + 1)

ExNumberNode(value) == [Node("Number", <<>>, <<>>) EXCEPT !.value = IntOf(value)]
ExBinaryOpNode(op, left, right) == Node("BinaryOp", <<op>>, <<left, right>>)
ConditionNode(left, op, right) == Node("Condition", op, <<left, right>>)
IfStatementNode(condition, then_statement, else_statement) ==
  Node("IfStatement", <<>>, <<condition, then_statement, else_statement>>)
WhileStatementNode(condition, body) == Node("WhileStatement", <<>>, <<condition, body>>)
PrintStatementNode(expression) == Node("PrintStatement", <<>>, <<expression>>)

parse_number(text, pos) ==
  LET run == ClassRun(text, pos, Plus(Digits))
  IN IF run = 0 THEN Result(NoNode, pos)
     ELSE Result(ExNumberNode(SubSeq(text, pos + 1, pos + run)), pos + run)

parse_string(text, pos) ==
  IF peek(text, pos) # "\"" THEN Result(NoNode, pos)
  ELSE LET start == pos + 1
           end == start + ClassRun(text, start, StarNot({"\""}))
       IN IF eof(text, end) THEN Result(NoNode, end)
          ELSE Result(Node("String", SubSeq(text, start + 1, end), <<>>), end + 1)

parse_identifier(text, pos) ==
  IF peek(text, pos) \notin Letters \cup {"_"} THEN Result(NoNode, pos)
  ELSE LET end == pos + 1 + ClassRun(text, pos + 1, Star(Letters \cup Digits \cup {"_"}))
       IN Result(IdentifierNode(SubSeq(text, pos + 1, end)), end)

\* the result v of a call, computed once and handed to Body
With(v, Body(_)) == CHOOSE out \in {Body(r) : r \in {v}} : TRUE

RECURSIVE parse_expression(_, _)
RECURSIVE ExpressionLoop(_, _, _)
RECURSIVE parse_term(_, _)
RECURSIVE TermLoop(_, _, _)
RECURSIVE parse_factor(_, _)

parse_expression(text, pos) ==
  With(parse_term(text, Example_skip_whitespace(text, pos)), LAMBDA left :
    IF left.node = NoNode THEN left
    ELSE ExpressionLoop(text, left.node, left.pos))

\* while not ctx.eof(): a + or - and a right term, or break
ExpressionLoop(text, left, pos) ==
  IF eof(text, pos) THEN Result(left, pos)
  ELSE LET op_pos == Example_skip_whitespace(text, pos)
       IN IF peek(text, op_pos) \notin {"+", "-"} THEN Result(left, op_pos)
          ELSE With(parse_term(text, Example_skip_whitespace(text, op_pos + 1)),
                    LAMBDA right :
                      IF right.node = NoNode THEN Result(left, op_pos)
                      ELSE ExpressionLoop(text,
                             ExBinaryOpNode(text[op_pos + 1], left, right.node),
                             right.pos))

parse_term(text, pos) ==
  With(parse_factor(text, Example_skip_whitespace(text, pos)), LAMBDA left :
    IF left.node = NoNode THEN left
    ELSE TermLoop(text, left.node, left.pos))

\* while not ctx.eof(): a * or / and a right factor, or break
TermLoop(text, left, pos) ==
  IF eof(text, pos) THEN Result(left, pos)
  ELSE LET op_pos == Example_skip_whitespace(text, pos)
       IN IF peek(text, op_pos) \notin {"*", "/"} THEN Result(left, op_pos)
          ELSE With(parse_factor(text, Example_skip_whitespace(text, op_pos + 1)),
                    LAMBDA right :
                      IF right.node = NoNode THEN Result(left, op_pos)
                      ELSE TermLoop(text,
                             ExBinaryOpNode(text[op_pos + 1], left, right.node),
                             right.pos))

parse_factor(text, pos) ==
  LET p == Example_skip_whitespace(text, pos)
      c == peek(text, p)
  IN IF eof(text, p) THEN Result(NoNode, p)
     ELSE IF c \in Digits THEN parse_number(text, p)
     ELSE IF c = "\"" THEN parse_string(text, p)
     ELSE IF c \in Letters \cup {"_"} THEN parse_identifier(text, p)
     ELSE IF c = "("
          THEN With(parse_expression(text, Example_skip_whitespace(text, p + 1)),
                    LAMBDA expr :
                      LET close == Example_skip_whitespace(text, expr.pos)
                      IN IF expr.node = NoNode THEN Result(NoNode, expr.pos)
                         ELSE IF peek(text, close) # ")" THEN Result(NoNode, close)
                         ELSE Result(expr.node, close + 1))
     ELSE Result(NoNode, p)

\* the two-character and one-character comparison operators at the cursor
ComparisonAt(text, pos) ==
  IF \E op \in {<<"=", "=">>, <<"!", "=">>, <<"<", "=">>, <<">", "=">>} :
       LiteralMatches(text, pos, op)
  THEN SubSeq(text, pos + 1, pos + 2)
  ELSE IF peek(text, pos) \in {"<", ">"} THEN <<text[pos + 1]>>
  ELSE <<>>

parse_condition(text, pos) ==
  With(parse_expression(text, Example_skip_whitespace(text, pos)), LAMBDA left :
    LET op_pos == Example_skip_whitespace(text, left.pos)
        op == ComparisonAt(text, op_pos)
    IN IF left.node = NoNode THEN left
       ELSE IF op = <<>> THEN Result(NoNode, op_pos)
       ELSE With(parse_expression(text, Example_skip_whitespace(text, op_pos + Len(op))),
                 LAMBDA right :
                   IF right.node = NoNode THEN Result(NoNode, op_pos)
                   ELSE Result(ConditionNode(left.node, op, right.node), right.pos)))

RECURSIVE parse_statement(_, _)
RECURSIVE parse_if_statement(_, _)
RECURSIVE parse_while_statement(_, _)
RECURSIVE parse_block(_, _)
RECURSIVE BlockLoop(_, _, _)

\* identifier = expression ; after the keyword, if any, from cursor pos;
\* a failure leaves the cursor at start_pos
Binding(text, start_pos, pos, class) ==
  LET identifier == parse_identifier(text, pos)
      eq == Example_skip_whitespace(text, identifier.pos)
  IN IF identifier.node = NoNode THEN Result(NoNode, start_pos)
     ELSE IF peek(text, eq) # "=" THEN Result(NoNode, start_pos)
     ELSE With(parse_expression(text, Example_skip_whitespace(text, eq + 1)),
               LAMBDA expression :
                 LET semi == Example_skip_whitespace(text, expression.pos)
                 IN IF expression.node = NoNode THEN Result(NoNode, start_pos)
                    ELSE IF peek(text, semi) # ";" THEN Result(NoNode, start_pos)
                    ELSE Result(Node(class, <<>>, <<identifier.node, expression.node>>),
                                semi + 1))

parse_let_statement(text, pos) ==
  IF ~LiteralMatches(text, pos, <<"l", "e", "t">>) THEN Result(NoNode, pos)
  ELSE Binding(text, pos, Example_skip_whitespace(text, pos + 3), "LetStatement")

parse_assignment_statement(text, pos) == Binding(text, pos, pos, "AssignStatement")

parse_print_statement(text, pos) ==
  LET open == Example_skip_whitespace(text, pos + 5)
  IN IF ~LiteralMatches(text, pos, <<"p", "r", "i", "n", "t">>) THEN Result(NoNode, pos)
     ELSE IF peek(text, open) # "(" THEN Result(NoNode, pos)
     ELSE With(parse_expression(text, Example_skip_whitespace(text, open + 1)),
               LAMBDA expression :
                 LET close == Example_skip_whitespace(text, expression.pos)
                     semi == Example_skip_whitespace(text, close + 1)
                 IN IF expression.node = NoNode THEN Result(NoNode, pos)
                    ELSE IF peek(text, close) # ")" THEN Result(NoNode, pos)
                    ELSE IF peek(text, semi) # ";" THEN Result(NoNode, pos)
                    ELSE Result(PrintStatementNode(expression.node), semi + 1))

parse_statement(text, pos) ==
  LET p == Example_skip_whitespace(text, pos)
  IN IF eof(text, p) THEN Result(NoNode, p)
     ELSE IF LiteralMatches(text, p, <<"l", "e", "t">>) THEN parse_let_statement(text, p)
     ELSE IF LiteralMatches(text, p, <<"i", "f">>) THEN parse_if_statement(text, p)
     ELSE IF LiteralMatches(text, p, <<"w", "h", "i", "l", "e">>)
          THEN parse_while_statement(text, p)
     ELSE IF LiteralMatches(text, p, <<"p", "r", "i", "n", "t">>)
          THEN parse_print_statement(text, p)
     ELSE IF peek(text, p) = "{" THEN parse_block(text, p)
     ELSE parse_assignment_statement(text, p)

\* the else part of an if statement whose condition and then part are parsed
ElsePart(text, pos, condition, then_statement) ==
  LET else_pos == Example_skip_whitespace(text, then_statement.pos)
  IN IF ~LiteralMatches(text, else_pos, <<"e", "l", "s", "e">>)
     THEN Result(IfStatementNode(condition.node, then_statement.node, NoNode), else_pos)
     ELSE With(parse_statement(text, Example_skip_whitespace(text, else_pos + 4)),
               LAMBDA else_statement :
                 IF else_statement.node = NoNode THEN Result(NoNode, pos)
                 ELSE Result(IfStatementNode(condition.node, then_statement.node,
                                             else_statement.node),
                             else_statement.pos))

parse_if_statement(text, pos) ==
  LET open == Example_skip_whitespace(text, pos + 2)
  IN IF ~LiteralMatches(text, pos, <<"i", "f">>) THEN Result(NoNode, pos)
     ELSE IF peek(text, open) # "(" THEN Result(NoNode, pos)
     ELSE With(parse_condition(text, Example_skip_whitespace(text, open + 1)),
               LAMBDA condition :
                 LET close == Example_skip_whitespace(text, condition.pos)
                 IN IF condition.node = NoNode THEN Result(NoNode, pos)
                    ELSE IF peek(text, close) # ")" THEN Result(NoNode, pos)
                    ELSE With(parse_statement(text, Example_skip_whitespace(text, close + 1)),
                              LAMBDA then_statement :
                                IF then_statement.node = NoNode THEN Result(NoNode, pos)
                                ELSE ElsePart(text, pos, condition, then_statement)))

parse_while_statement(text, pos) ==
  LET open == Example_skip_whitespace(text, pos + 5)
  IN IF ~LiteralMatches(text, pos, <<"w", "h", "i", "l", "e">>) THEN Result(NoNode, pos)
     ELSE IF peek(text, open) # "(" THEN Result(NoNode, pos)
     ELSE With(parse_condition(text, Example_skip_whitespace(text, open + 1)),
               LAMBDA condition :
                 LET close == Example_skip_whitespace(text, condition.pos)
                 IN IF condition.node = NoNode THEN Result(NoNode, pos)
                    ELSE IF peek(text, close) # ")" THEN Result(NoNode, pos)
                    ELSE With(parse_statement(text, Example_skip_whitespace(text, close + 1)),
                              LAMBDA body :
                                IF body.node = NoNode THEN Result(NoNode, pos)
                                ELSE Result(WhileStatementNode(condition.node, body.node),
                                            body.pos)))

parse_block(text, pos) ==
  IF peek(text, pos) # "{" THEN Result(NoNode, pos)
  ELSE With(BlockLoop(text, Example_skip_whitespace(text, pos + 1), <<>>), LAMBDA body :
         IF peek(text, body.pos) # "}" THEN Result(NoNode, pos)
         ELSE Result(BlockNode(body.node), body.pos + 1))

\* while not ctx.eof() and ctx.peek() != '}': the statements so far and the
\* cursor at which the loop ends
BlockLoop(text, pos, statements) ==
  IF eof(text, pos) \/ peek(text, pos) = "}" THEN Result(statements, pos)
  ELSE With(parse_statement(text, pos), LAMBDA statement :
         IF statement.node = NoNode THEN Result(statements, statement.pos)
         ELSE BlockLoop(text, Example_skip_whitespace(text, statement.pos),
                        Append(statements, statement.node)))

\* parse_program: the statements and the cursor at which the loop ends
RECURSIVE ProgramLoop(_, _, _)
ProgramLoop(text, pos, statements) ==
  LET p == Example_skip_whitespace(text, pos)
  IN IF eof(text, pos) \/ eof(text, p) THEN Result(statements, p)
     ELSE With(parse_statement(text, p), LAMBDA statement :
            IF statement.node = NoNode THEN Result(statements, statement.pos)
            ELSE ProgramLoop(text, statement.pos, Append(statements, statement.node)))

parse_program(text) ==
  With(ProgramLoop(text, 0, <<>>), LAMBDA loop :
    Result(ProgramNode(loop.node), loop.pos))

(***************************************************************************)
(* Sources for the example parser: the programs of test_tinycl.py and     *)
(* their variants with and without braces, expression and semicolon.      *)
(***************************************************************************)
\* if (x > 0)
IfHead == <<"i", "f", " ", "(", "x", " ", ">", " ", "0", ")", " ">>

\* while (i < 10)
WhileHead == <<"w", "h", "i", "l", "e", " ", "(", "i", " ", "<", " ", "1", "0",
    ")", " ">>

\* print("Positive");
PrintPositive == <<"p", "r", "i", "n", "t", "(", "\"", "P", "o", "s", "i", "t", "i",
    "v", "e", "\"", ")", ";">>

\* i = i + 1;
Increment == <<"i", " ", "=", " ", "i", " ", "+", " ", "1", ";">>

\* let x = 1;
LetOne == <<"l", "e", "t", " ", "x", " ", "=", " ", "1", ";">>

\* let x =
LetX == <<"l", "e", "t", " ", "x", " ", "=", " ">>

\* print("Hello, world")
PrintHello == <<"p", "r", "i", "n", "t", "(", "\"", "H", "e", "l", "l", "o", ",",
    " ", "w", "o", "r", "l", "d", "\"", ")">>

Heads == {IfHead, WhileHead}

SimpleStatements == {PrintPositive, Increment, LetOne}

Braced(body) == <<"{", " ">> \o body \o <<" ", "}">>

\* if (...) s and while (...) s with a body s that is not a block
UnbracedBodies == {h \o s : h \in Heads, s \in SimpleStatements}

BracedBodies == {h \o Braced(s) : h \in Heads, s \in SimpleStatements}

\* what follows let x = : nothing, an expression, an unfinished expression
Complete == {<<"4", "2">>, <<"2", " ", "+", " ", "3", " ", "*", " ", "4">>}

Unfinished == {<<>>, <<" ">>, <<"1", " ", "+">>, <<"(", "1">>}

Semicolon == <<";">>

\* let x = ; and the other let statements without a whole expression
LetNoExpression == {LetX \o e \o t : e \in Unfinished, t \in {Semicolon, <<>>}}

LetStatements == {LetX \o e \o Semicolon : e \in Complete}

\* print("Hello, world") and the other statements without their semicolon
NoSemicolon == {PrintHello} \cup {LetX \o e : e \in Complete}
               \cup {SubSeq(s, 1, Len(s) - 1) : s \in SimpleStatements}

Malformed == LetNoExpression \cup NoSemicolon \cup UnbracedBodies

WellFormed == LetStatements \cup SimpleStatements \cup BracedBodies
              \cup {PrintHello \o Semicolon, Braced(LetOne \o <<" ">> \o Increment)}

ExamplePrograms == Malformed \cup WellFormed

(***************************************************************************)
(* SpecExample: TinyCLParser() of the example module, and its parse(text)  *)
(***************************************************************************)
\* TinyCLParser(): PEGParser.__init__, then the rules list of the grammar
ExampleNew ==
  /\ example.made = "none"
  /\ example.stage = "idle"
  /\ example' = [example EXCEPT !.made = ExampleInit(1)]
  /\ UNCHANGED <<grammar, cache, th, calls, tinycl, interp>>

\* parse(text) up to the return of parse_program; parse and the methods it
\* calls read the text and the cursor only, no attribute of the parser
ExampleParse ==
  /\ example.stage = "idle"
  /\ \E text \in ExamplePrograms :
       LET r == parse_program(text)
       IN example' = [example EXCEPT !.stage = "parsed", !.text = text,
                                     !.pos = r.pos, !.program = r.node]
  /\ UNCHANGED <<grammar, cache, th, calls, tinycl, interp>>

\* the end of parse(): skip trailing whitespace, return the program at the
\* end of input, raise ParseError before it
ExampleFinish ==
  /\ example.stage = "parsed"
  /\ LET p == Example_skip_whitespace(example.text, example.pos)
     IN example' = [example EXCEPT
                      !.stage = "done",
                      !.pos = p,
                      !.outcome = IF eof(example.text, p) THEN "Program"
                                  ELSE "ParseError"]
  /\ UNCHANGED <<grammar, cache, th, calls, tinycl, interp>>

NextExample ==
  \/ ExampleNew
  \/ ExampleParse
  \/ ExampleFinish

SpecExample == InitAst /\ [][NextExample]_vars

\* C14: parse() of the example parser raises ParseError, and returns no
\* Program, for every malformed program: a let without an expression, a
\* statement without its semicolon, and an if or while statement whose body
\* is not a block in braces.
C14_RejectsMalformed ==
  (example.stage = "done" /\ example.text \in Malformed)
    => example.outcome = "ParseError"

(***************************************************************************)
(* The operators and the statements of the interpreter                     *)
(***************************************************************************)
IsNumber(v) == v.t \in {"int", "bool"}

\* bool(v)
Truthy(v) == CASE v.t \in {"int", "bool"} -> v.n # 0
               [] v.t = "str" -> v.s # <<>>
               [] OTHER -> FALSE

\* left == right
PyEquals(left, right) ==
  IF IsNumber(left) /\ IsNumber(right) THEN left.n = right.n
  ELSE left = right

\* str(n) of a natural number
RECURSIVE DigitsOf(_)
DigitsOf(n) ==
  LET d == <<"0", "1", "2", "3", "4", "5", "6", "7", "8", "9">>[(n % 10) + 1]
  IN IF n < 10 THEN <<d>> ELSE Append(DigitsOf(n \div 10), d)

\* str(v)
PyStr(v) ==
  CASE v.t = "int" -> IF v.n < 0 THEN <<"-">> \o DigitsOf(-v.n) ELSE DigitsOf(v.n)
    [] v.t = "bool" -> IF v.n = 1 THEN <<"T", "r", "u", "e">>
                       ELSE <<"F", "a", "l", "s", "e">>
    [] v.t = "str" -> v.s
    [] OTHER -> <<"N", "o", "n", "e">>

\* s * n
RECURSIVE Repeat(_, _)
Repeat(s, n) == IF n <= 0 THEN <<>> ELSE s \o Repeat(s, n - 1)

\* left % right for right # 0: the result has the sign of right
PyMod(a, b) == IF b > 0 THEN a % b ELSE -((-a) % (-b))

Value(v) == [error |-> "ok", v |-> v]
Raised(e) == [error |-> e, v |-> NoneValue]

\* the operators of a BinaryOpNode on two values.  True division and the
\* orderings of strings are outside the values of this model: "Unmodelled".
BinaryValue(operator, left, right) ==
  LET numbers == IsNumber(left) /\ IsNumber(right)
      strings == left.t = "str" /\ right.t = "str"
  IN CASE operator = <<"+">> ->
            IF left.t = "str" \/ right.t = "str" THEN Value(StrV(PyStr(left) \o PyStr(right)))
            ELSE IF numbers THEN Value(IntV(left.n + right.n))
            ELSE Raised("TypeError")
       [] operator = <<"-">> ->
            IF numbers THEN Value(IntV(left.n - right.n)) ELSE Raised("TypeError")
       [] operator = <<"*">> ->
            IF numbers THEN Value(IntV(left.n * right.n))
            ELSE IF left.t = "str" /\ IsNumber(right) THEN Value(StrV(Repeat(left.s, right.n)))
            ELSE IF IsNumber(left) /\ right.t = "str" THEN Value(StrV(Repeat(right.s, left.n)))
            ELSE Raised("TypeError")
       [] operator = <<"/">> ->
            IF numbers THEN (IF right.n = 0 THEN Raised("ZeroDivisionError")
                             ELSE Raised("Unmodelled"))
            ELSE Raised("TypeError")
       [] operator = <<"%">> ->
            IF numbers THEN (IF right.n = 0 THEN Raised("ZeroDivisionError")
                             ELSE Value(IntV(PyMod(left.n, right.n))))
            ELSE IF left.t = "str" THEN Raised("Unmodelled")
            ELSE Raised("TypeError")
       [] operator = <<"=", "=">> -> Value(BoolV(PyEquals(left, right)))
       [] operator = <<"!", "=">> -> Value(BoolV(~PyEquals(left, right)))
       [] operator \in {<<"<">>, <<">">>, <<"<", "=">>, <<">", "=">>} ->
            IF numbers
            THEN Value(BoolV(CASE operator = <<"<">> -> left.n < right.n
                               [] operator = <<">">> -> left.n > right.n
                               [] operator = <<"<", "=">> -> left.n <= right.n
                               [] OTHER -> left.n >= right.n))
            ELSE IF strings THEN Raised("Unmodelled")
            ELSE Raised("TypeError")
       [] operator = <<"&", "&">> -> Value(IF Truthy(left) THEN right ELSE left)
       [] operator = <<"|", "|">> -> Value(IF Truthy(left) THEN left ELSE right)
       [] OTHER -> Raised("ValueError")

\* the operators of a UnaryOpNode
UnaryValue(operator, operand) ==
  CASE operator = <<"-">> ->
         IF IsNumber(operand) THEN Value(IntV(-operand.n)) ELSE Raised("TypeError")
    [] operator = <<"!">> -> Value(BoolV(~Truthy(operand)))
    [] OTHER -> Raised("ValueError")

Ok(st) == st.status = "ok"
Yield(st, v) == [st EXCEPT !.value = v]
Throw(st, e) == [st EXCEPT !.status = e, !.value = NoneValue]
\* the state after an operator: its value, or the exception it raised
Apply(st, r) == IF r.error = "ok" THEN Yield(st, r.v) ELSE Throw(st, r.error)

\* self.variables[name] = value and self.functions[name] = statement
Store(table, name, value) == (name :> value) @@ table

RECURSIVE evaluate_expression(_, _)
RECURSIVE EvaluateArguments(_, _, _, _)
RECURSIVE execute_statement(_, _)
RECURSIVE ExecuteStatements(_, _, _)
RECURSIVE WhileLoop(_, _)
RECURSIVE call_function(_, _, _)

\* _execute_block: for statement in block.statements
execute_block(block, st) ==
  IF block.node \notin {"Block", "Program"} THEN Throw(st, "AttributeError")
  ELSE ExecuteStatements(block.kids, 1, st)

\* the statements from the i-th on, until one raises
ExecuteStatements(statements, i, st) ==
  IF i > Len(statements) \/ ~Ok(st) THEN st
  ELSE ExecuteStatements(statements, i + 1, execute_statement(statements[i], st))

\* _evaluate_expression: the state after it, the value in st.value
evaluate_expression(expression, st) ==
  LET class == expression.node
  IN CASE class = "Number" -> Yield(st, IntV(expression.value))
       [] class = "String" -> Yield(st, StrV(expression.name))
       [] class = "Boolean" -> Yield(st, BoolV(expression.value = 1))
       [] class = "Identifier" ->
            IF expression.name \notin DOMAIN st.variables THEN Throw(st, "ValueError")
            ELSE Yield(st, st.variables[expression.name])
       [] class = "BinaryOp" ->
            LET left == evaluate_expression(expression.kids[1], st)
                right == evaluate_expression(expression.kids[2], left)
            IN IF ~Ok(left) THEN left
               ELSE IF ~Ok(right) THEN right
               ELSE Apply(right, BinaryValue(expression.name, left.value, right.value))
       [] class = "UnaryOp" ->
            LET operand == evaluate_expression(expression.kids[1], st)
            IN IF ~Ok(operand) THEN operand
               ELSE Apply(operand, UnaryValue(expression.name, operand.value))
       [] class \in {"FunctionCallExpr", "FunctionCall"} ->
            call_function(expression.name, expression.kids, st)
       [] class = "Character" -> Yield(st, StrV(expression.name))
       [] class \in {"ArrayAccess", "ArrayLiteral"} -> Throw(st, "Unmodelled")
       [] OTHER -> Throw(st, "ValueError")

\* [self._evaluate_expression(arg) for arg in arguments], from the i-th on:
\* the state after the evaluations and the values
EvaluateArguments(arguments, i, st, values) ==
  IF i > Len(arguments) \/ ~Ok(st) THEN [st |-> st, values |-> values]
  ELSE LET arg == evaluate_expression(arguments[i], st)
       IN EvaluateArguments(arguments, i + 1, arg, Append(values, arg.value))

\* for i, param in enumerate(function.parameters): bound if i < len(arg_values)
BindParameters(variables, parameters, arg_values) ==
  LET F[i \in 0..Len(parameters)] ==
        IF i = 0 THEN variables
        ELSE IF i <= Len(arg_values) THEN Store(F[i - 1], parameters[i], arg_values[i])
        ELSE F[i - 1]
  IN F[Len(parameters)]

\* _call_function
call_function(name, arguments, st) ==
  IF name \notin DOMAIN st.functions THEN Throw(st, "ValueError")
  ELSE LET function == st.functions[name]
           args == EvaluateArguments(arguments, 1, st, <<>>)
           old_variables == args.st.variables
           body == execute_block(function.kids[1],
                     [args.st EXCEPT !.variables =
                        BindParameters(old_variables, function.names, args.values)])
           entry == [name |-> name, ended |-> body.status,
                     variables |-> <<st.variables, old_variables>>,
                     functions |-> <<st.functions, body.functions>>]
           \* finally: self.variables = old_variables
           after == [body EXCEPT !.variables = old_variables,
                                 !.log = Append(body.log, entry)]
       IN IF ~Ok(args.st) THEN args.st
          ELSE IF body.status = "return" THEN [after EXCEPT !.status = "ok"]
          ELSE IF body.status = "ok" THEN Yield(after, NoneValue)
          ELSE after

\* while self._evaluate_expression(statement.condition): execute the body
WhileLoop(statement, st) ==
  LET condition == evaluate_expression(statement.kids[1], st)
  IN IF ~Ok(condition) \/ ~Truthy(condition.value) THEN condition
     ELSE LET body == execute_block(statement.kids[2], condition)
          IN IF ~Ok(body) THEN body ELSE WhileLoop(statement, body)

\* _execute_statement and _execute_function_statement
execute_statement(statement, st) ==
  LET class == statement.node
  IN CASE class \in {"VariableDecl", "Assignment", "ConstantDecl"} ->
            LET value == evaluate_expression(statement.kids[1], st)
            IN IF ~Ok(value) THEN value
               ELSE [value EXCEPT !.variables = Store(@, statement.name, value.value)]
       [] class = "If" ->
            LET condition == evaluate_expression(statement.kids[1], st)
            IN IF ~Ok(condition) THEN condition
               ELSE IF Truthy(condition.value) THEN execute_block(statement.kids[2], condition)
               ELSE IF statement.kids[3] # NoNode
                    THEN execute_block(statement.kids[3], condition)
               ELSE condition
       [] class = "While" -> WhileLoop(statement, st)
       [] class = "Print" ->
            LET value == evaluate_expression(statement.kids[1], st)
            IN IF ~Ok(value) THEN value
               ELSE [value EXCEPT !.output = Append(@, PyStr(value.value))]
       [] class = "Block" -> execute_block(statement, st)
       [] class = "FunctionDecl" ->
            [st EXCEPT !.functions = Store(@, statement.name, statement)]
       [] class = "FunctionCall" -> call_function(statement.name, statement.kids, st)
       [] class = "Return" ->
            IF statement.kids[1] # NoNode
            THEN LET value == evaluate_expression(statement.kids[1], st)
                 IN IF ~Ok(value) THEN value ELSE [value EXCEPT !.status = "return"]
            ELSE [st EXCEPT !.status = "return", !.value = NoneValue]
       [] OTHER -> Throw(st, "ValueError")

(***************************************************************************)
(* Programs for the interpreter, as the AST of                             *)
(*   var x = 1; func g(b) { x = b; return b + 1; } func f(a) { BODY } CALL *)
(* BODY is a sequence of at most MaxBody statements of BodyStatements and  *)
(* CALL is one of CallStatements.                                          *)
(***************************************************************************)
MaxBody == 2

Num(digits) == NumberNode(digits)
Var(name) == IdentifierNode(name)

BodyStatements == {
  \* x = 2;
  AssignmentNode(<<"x">>, Num(<<"2">>)),
  \* var z = 3;
  VariableDeclNode(<<"z">>, Num(<<"3">>)),
  \* a = a + 1;
  AssignmentNode(<<"a">>, BinaryOpNode(Var(<<"a">>), <<"+">>, Num(<<"1">>))),
  \* return a;
  ReturnNode(Var(<<"a">>)),
  \* return;
  ReturnNode(NoNode),
  \* var z = q;
  VariableDeclNode(<<"z">>, Var(<<"q">>)),
  \* func h() { }
  FunctionDeclNode(<<"h">>, <<>>, BlockNode(<<>>)),
  \* x = g(a);
  AssignmentNode(<<"x">>, FunctionCallExprNode(<<"g">>, <<Var(<<"a">>)>>)),
  \* if (a < 9) { x = 7; return x; }
  IfNode(BinaryOpNode(Var(<<"a">>), <<"<">>, Num(<<"9">>)),
         BlockNode(<<AssignmentNode(<<"x">>, Num(<<"7">>)), ReturnNode(Var(<<"x">>))>>),
         NoNode),
  \* print(x);
  PrintNode(Var(<<"x">>)) }

RECURSIVE Bodies(_)
Bodies(n) ==
  IF n = 0 THEN {<<>>}
  ELSE Bodies(n - 1) \cup {Append(b, s) : b \in Bodies(n - 1), s \in BodyStatements}

CallStatements == {
  \* f(5);
  FunctionCallNode(<<"f">>, <<Num(<<"5">>)>>),
  \* var r = f(x);
  VariableDeclNode(<<"r">>, FunctionCallExprNode(<<"f">>, <<Var(<<"x">>)>>)),
  \* f(g(9));
  FunctionCallNode(<<"f">>, <<FunctionCallExprNode(<<"g">>, <<Num(<<"9">>)>>)>>) }

ProgramWith(body, call) == ProgramNode(<<
  VariableDeclNode(<<"x">>, Num(<<"1">>)),
  FunctionDeclNode(<<"g">>, << <<"b">> >>,
    BlockNode(<<AssignmentNode(<<"x">>, Var(<<"b">>)),
                ReturnNode(BinaryOpNode(Var(<<"b">>), <<"+">>, Num(<<"1">>)))>>)),
  FunctionDeclNode(<<"f">>, << <<"a">> >>, BlockNode(body)),
  call >>)

InterpreterPrograms == {ProgramWith(b, c) : b \in Bodies(MaxBody), c \in CallStatements}

(***************************************************************************)
(* SpecInterp: TinyCLInterpreter().interpret(program), one statement of    *)
(* the program per step                                                    *)
(***************************************************************************)
\* TinyCLInterpreter() and interpret(program) up to its loop
Interpret ==
  /\ interp.stage = "idle"
  /\ \E program \in InterpreterPrograms :
       interp' = IF program.node = "Program"
                 THEN [stage |-> "running", program |-> program.kids, pc |-> 1,
                       st |-> NewInterpreter]
                 ELSE [interp EXCEPT !.stage = "raised", !.st.status = "ValueError"]
  /\ UNCHANGED <<grammar, cache, th, calls, tinycl, example>>

\* one pass of for statement in program.statements; an exception, the
\* ReturnException of a return outside a function included, leaves interpret
ExecuteNext ==
  /\ interp.stage = "running"
  /\ interp.pc <= Len(interp.program)
  /\ LET st == execute_statement(interp.program[interp.pc], interp.st)
     IN interp' = IF Ok(st)
                  THEN [interp EXCEPT !.pc = @ + 1, !.st = st]
                  ELSE [interp EXCEPT !.stage = "raised", !.st = st]
  /\ UNCHANGED <<grammar, cache, th, calls, tinycl, example>>

\* the loop is over: interpret returns
InterpretReturn ==
  /\ interp.stage = "running"
  /\ interp.pc > Len(interp.program)
  /\ interp' = [interp EXCEPT !.stage = "done"]
  /\ UNCHANGED <<grammar, cache, th, calls, tinycl, example>>

NextInterp ==
  \/ Interpret
  \/ ExecuteNext
  \/ InterpretReturn

SpecInterp == InitAst /\ [][NextInterp]_vars

\* C15: a function call leaves the variables exactly as they were just
\* before the call, whether the body ended by return, by reaching its end or
\* by an error, so nothing assigned or declared in the body is visible
\* afterwards; and it leaves the function table unchanged.
C15_CallRestoresEnvironment ==
  \A i \in DOMAIN interp.st.log :
    LET call == interp.st.log[i]
    IN /\ call.variables[2] = call.variables[1]
       /\ call.functions[2] = call.functions[1]

(***************************************************************************)
(* The combinators, step by step.  Top(th[t]) is the frame of the parse    *)
(* method about to resume: start is its start_pos, origin the cursor at    *)
(* which the method was entered, acc the results it has collected.         *)
(***************************************************************************)
Entered(t, kind) == /\ Evaluating(t, kind)
                    /\ th'[t].mode = "eval"
                    /\ Len(th'[t].stack) = Len(th[t].stack) + 1

\* the parse method of a kind raises ParseError in this step
Fails(t, kind) == /\ Resuming(t, kind)
                  /\ th'[t].mode = "fail"
                  /\ Len(th'[t].stack) < Len(th[t].stack)

\* the parse method of a kind returns in this step
Returns(t, kind) == /\ Resuming(t, kind)
                    /\ th'[t].mode = "ret"
                    /\ Len(th'[t].stack) < Len(th[t].stack)

\* C16: if an item of a Sequence fails, the Sequence fails with the cursor
\* at which the Sequence started, however many items had matched; when it
\* succeeds its result is the list of the items' results in order, one per
\* item.
C16_Step ==
  \A t \in Threads :
    /\ Entered(t, "Sequence") => Top(th'[t]).start = th[t].pos
    /\ Resuming(t, "Sequence") /\ th[t].mode = "fail" =>
         /\ Fails(t, "Sequence")
         /\ th'[t].pos = Top(th[t]).origin
    /\ Resuming(t, "Sequence") /\ th[t].mode = "ret" =>
         /\ th'[t].mode \in {"eval", "ret"}
         /\ th'[t].mode = "eval" =>
              /\ Top(th'[t]).acc = Append(Top(th[t]).acc, th[t].val)
              /\ Len(Top(th'[t]).acc) < Len(Top(th[t]).e.xs)
              /\ th'[t].cur = Top(th[t]).e.xs[Len(Top(th'[t]).acc) + 1]
         /\ th'[t].mode = "ret" =>
              /\ th'[t].val = List(Append(Top(th[t]).acc, th[t].val))
              /\ Len(th'[t].val.l) = Len(Top(th[t]).e.xs)

C16_SequenceAtomic == [][C16_Step]_vars

\* a Sequence has failed at its second item: it is back at the cursor from
\* which its first item, rule A, had matched and consumed input
C16_Witness ==
  /\ grammar = 1
  /\ th["c1"].mode = "fail"
  /\ th["c1"].err = "Sequence failed"
  /\ <<"A", th["c1"].pos>> \in DOMAIN cache["P"]
  /\ cache["P"][<<"A", th["c1"].pos>>].end > th["c1"].pos

\* C17: whenever a match attempt of any expression kind fails, the cursor
\* afterwards is the cursor at which that attempt began, also when the
\* input at that cursor starts with whitespace.
C17_Step ==
  \A t \in Threads :
    /\ th[t].mode = "eval" /\ th'[t].mode = "fail" => th'[t].pos = th[t].pos
    /\ \A kind \in {"Rule", "Sequence", "Choice", "ZeroOrMore", "OneOrMore",
                    "Optional", "AndPredicate", "NotPredicate"} :
         Fails(t, kind) => th'[t].pos = Top(th[t]).origin

C17_BacktrackingIsTotal == [][C17_Step]_vars

\* C18: when ZeroOrMore, or the loop of OneOrMore after its first match,
\* stops because the inner expression failed, the cursor it leaves is the
\* cursor before that attempt: the end of the last successful iteration, or
\* the start of the repetition if there was none.
C18_Step ==
  \A t \in Threads : \A kind \in {"ZeroOrMore", "OneOrMore"} :
    Returns(t, kind) /\ th[t].mode = "fail" =>
      /\ th'[t].pos = Top(th[t]).start
      /\ Top(th[t]).acc = <<>> => th'[t].pos = Top(th[t]).origin

C18_LoopStopsBeforeFailedAttempt == [][C18_Step]_vars

\* C19: if the first attempt of the inner expression of a OneOrMore fails,
\* the OneOrMore fails with the cursor at which it started; otherwise it
\* succeeds, and its result is the non-empty list of the results of the
\* successful iterations in order.
C19_Step ==
  \A t \in Threads :
    /\ Entered(t, "OneOrMore") =>
         /\ Top(th'[t]).first
         /\ Top(th'[t]).start = th[t].pos
    /\ Resuming(t, "OneOrMore") /\ Top(th[t]).first =>
         IF th[t].mode = "fail"
         THEN /\ Fails(t, "OneOrMore")
              /\ th'[t].pos = Top(th[t]).origin
         ELSE /\ th'[t].mode = "eval"
              /\ ~Top(th'[t]).first
              /\ Top(th'[t]).acc = <<th[t].val>>
    /\ Resuming(t, "OneOrMore") /\ ~Top(th[t]).first =>
         LET results == IF th[t].mode = "fail" THEN Top(th[t]).acc
                        ELSE Append(Top(th[t]).acc, th[t].val)
         IN /\ th'[t].mode \in {"eval", "ret"}
            /\ th'[t].mode = "eval" =>
                 /\ th[t].mode = "ret"
                 /\ Top(th'[t]).acc = results
            /\ th'[t].mode = "ret" =>
                 /\ th'[t].val = List(results)
                 /\ Len(results) >= 1

C19_OneOrMoreNeedsOne == [][C19_Step]_vars

\* OneOrMore([a]) has failed on a text that starts with b
C19_Witness ==
  /\ grammar = 10
  /\ th["c1"].text # <<>>
  /\ th["c1"].text[1] = "b"
  /\ th["c1"].mode = "fail"
  /\ th["c1"].err = "OneOrMore failed"
  /\ th["c1"].pos = 0

\* OneOrMore([a]) has returned the results of two iterations
C19_Reached ==
  /\ grammar = 10
  /\ th["c1"].mode = "ret"
  /\ th["c1"].val = List(<<Str(<<"a">>), Str(<<"a">>)>>)
  /\ Top(th["c1"]).k = "Sequence"
  /\ Top(th["c1"]).i = 1

\* C20: Optional never fails: if the inner expression matches, Optional
\* returns its result and its end cursor; if it fails with any ParseError,
\* that of an undefined rule included, Optional returns None with the cursor
\* at which it started.
C20_Step ==
  \A t \in Threads :
    /\ Entered(t, "Optional") => Top(th'[t]).start = th[t].pos
    /\ Resuming(t, "Optional") =>
         /\ Returns(t, "Optional")
         /\ IF th[t].mode = "ret"
            THEN /\ th'[t].val = th[t].val
                 /\ th'[t].pos = th[t].pos
            ELSE /\ th'[t].val = NoneV
                 /\ th'[t].pos = Top(th[t]).origin

C20_OptionalNeverFails == [][C20_Step]_vars

\* Optional(U), U undefined, has returned None into the Sequence around it
C20_Witness ==
  /\ grammar = 6
  /\ th["c1"].undefined
  /\ th["c1"].mode = "ret"
  /\ th["c1"].val = NoneV
  /\ Top(th["c1"]).k = "Sequence"
  /\ Top(th["c1"]).i = 1
  /\ th["c1"].pos = Top(th["c1"]).start

\* C21: AndPredicate and NotPredicate are zero-width: when either has been
\* evaluated, having succeeded or failed and whatever its inner expression
\* consumed, the cursor is the cursor before the predicate; AndPredicate
\* succeeds if and only if its inner expression succeeds.
C21_Step ==
  \A t \in Threads : \A kind \in {"AndPredicate", "NotPredicate"} :
    /\ Entered(t, kind) => Top(th'[t]).start = th[t].pos
    /\ Resuming(t, kind) =>
         /\ Returns(t, kind) \/ Fails(t, kind)
         /\ th'[t].pos = Top(th[t]).origin
         /\ kind = "AndPredicate" => (th'[t].mode = "ret" <=> th[t].mode = "ret")

C21_PredicatesZeroWidth == [][C21_Step]_vars

\* &'a' has succeeded inside a repetition: the cursor is back on the a that
\* the literal had consumed
C21_Witness ==
  /\ grammar = 5
  /\ th["c1"].mode = "ret"
  /\ th["c1"].val = Str(<<>>)
  /\ Top(th["c1"]).k = "OneOrMore"
  /\ Top(th["c1"]).first
  /\ th["c1"].pos = Top(th["c1"]).start
  /\ ~eof(th["c1"].text, th["c1"].pos)
  /\ th["c1"].text[th["c1"].pos + 1] = "a"

\* the text of a terminal match that ended at cursor e, when the match left
\* the cursor at pos after skipping the whitespace that follows it
MatchedUpTo(r, val, pos, e) ==
  /\ e - Len(val.s) >= r.pos
  /\ val.s = SubSeq(r.text, e - Len(val.s) + 1, e)
  /\ pos = skip_whitespace(r.text, e)

\* C22: immediately after a successful match of a Literal or of a Regex the
\* whitespace that follows the matched text has been skipped: the cursor is
\* on the first character after the match that is not whitespace, or at the
\* end of input, and the returned text is the matched text, whitespace
\* inside it included.
C22_Step ==
  \A t \in Threads :
    th[t].mode = "eval" /\ IsTerminal(th[t].cur) /\ th'[t].mode = "ret" =>
      /\ eof(th[t].text, th'[t].pos) \/ ~IsSpace(th[t].text[th'[t].pos + 1])
      /\ \E e \in 0..Len(th[t].text) : MatchedUpTo(th[t], th'[t].val, th'[t].pos, e)

C22_WhitespaceAfterTerminal == [][C22_Step]_vars

(***************************************************************************)
(* SpecMemo: one parse() call on the parser P, then the same call on the   *)
(* parser N, which matches every rule body afresh; or one parse() call on  *)
(* the TinyCLParser T, then the same call on TN.                           *)
(***************************************************************************)
\* programs for the TinyCL parsers: declarations of a chain of operators,
\* of an indexed name and of a call, and an assignment
MemoPrograms ==
  {SingleDecl, <<"x", "=", "1", ";">>}
    \cup {Padding(n) : n \in 0..MaxStatements}
    \cup {ProgramOf(e) : e \in Examples}
    \cup {ProgramOf(Indexed(is)) : is \in IndexLists(1)}
    \cup {ProgramOf(CallOf(args)) : args \in UNION {ArgumentLists(k) : k \in 0..MaxArgs}}

MemoCall ==
  /\ calls["c1"] = 0
  /\ calls["tc"] = 0
  /\ \E text \in TextsUpTo(MaxLen) : ParseStart("c1", text)
  /\ UNCHANGED <<tinycl, example, interp>>

UncachedCall ==
  /\ Done("c1")
  /\ calls["n1"] < calls["c1"]
  /\ ParseStart("n1", th["c1"].text)
  /\ UNCHANGED <<tinycl, example, interp>>

MemoCompile ==
  /\ grammar = 1
  /\ calls["c1"] = 0
  /\ calls["tc"] = 0
  /\ \E text \in MemoPrograms : ParseStart("tc", text)
  /\ UNCHANGED <<tinycl, example, interp>>

UncachedCompile ==
  /\ Done("tc")
  /\ calls["tn"] < calls["tc"]
  /\ ParseStart("tn", th["tc"].text)
  /\ UNCHANGED <<tinycl, example, interp>>

NextMemo ==
  \/ MemoCall
  \/ UncachedCall
  \/ MemoCompile
  \/ UncachedCompile
  \/ \E t \in {"c1", "n1", "tc", "tn"} : Step(t)

SpecMemo == Init /\ [][NextMemo]_vars

\* the parsers with and without the memo lookup, pairwise
MemoPairs == {<<"c1", "n1">>, <<"tc", "tn">>}

\* both calls of a pair have ended
BothDone(pair) ==
  /\ Done(pair[1]) /\ Done(pair[2])
  /\ calls[pair[1]] = calls[pair[2]]
  /\ th[pair[1]].text = th[pair[2]].text

\* a memo hit returns the cached result and moves the cursor to its end
C23_HitReturnsEntry ==
  \A t \in {"c1", "tc"} :
    LET key == <<th[t].rule, th[t].pos>>
    IN th[t].mode = "hit" /\ th'[t] # th[t] =>
         /\ key \in DOMAIN cache[InstanceOf(t)]
         /\ th'[t].mode = "ret"
         /\ th'[t].val = cache[InstanceOf(t)][key].val
         /\ th'[t].pos = cache[InstanceOf(t)][key].end

\* every entry of the memo table is what matching the rule body afresh at
\* that cursor produces, and the call ends as the call without lookup does
C23_SameAsAfresh ==
  \A pair \in MemoPairs :
    BothDone(pair) =>
      LET memo == cache[InstanceOf(pair[1])]
          afresh == cache[InstanceOf(pair[2])]
      IN /\ th[pair[1]].outcome = th[pair[2]].outcome
         /\ th[pair[1]].pos = th[pair[2]].pos
         /\ \A key \in DOMAIN memo :
              /\ key \in DOMAIN afresh
              /\ memo[key].val = afresh[key].val
              /\ memo[key].end = afresh[key].end

\* C23: memoization is transparent: a memo hit for a rule at a cursor
\* returns the cached result and sets the cursor to the recorded end, which
\* are the result and end that matching the rule body afresh there
\* produces; parse() has the outcome of the same engine without the lookup.
C23_MemoTransparent == []C23_SameAsAfresh /\ [][C23_HitReturnsEntry]_vars

\* a call that took a result from the memo table has ended as the call
\* without lookup did, with a result
C23_Witness ==
  /\ BothDone(<<"c1", "n1">>)
  /\ th["c1"].readFrom # {}
  /\ th["n1"].readFrom = {}
  /\ th["c1"].outcome.kind = "ok"

\* the same for the TinyCL parsers
C23_Reached ==
  /\ BothDone(<<"tc", "tn">>)
  /\ th["tc"].readFrom # {}
  /\ th["tn"].readFrom = {}
  /\ th["tc"].outcome.kind = "ok"
(***************************************************************************)
(* Prefix operators beside binary operators                                *)
(***************************************************************************)
\* C24: a prefix operator (! or -) binds tighter than every binary operator,
\* on the left and on the right operand: p a op b is built as
\* BinaryOp(UnaryOp(p, a), op, b) and a op p b as BinaryOp(a, op, UnaryOp(p, b));
\* -a + b, a * -b and a - -b are among them.  The prefix minus is never taken
\* as the binary minus and the operator before it is never dropped.
C24_UnaryBindsTighter ==
  \A p \in UnaryPrefixes : \A op \in Operators :
    /\ Compiled(PrefixFirst(p, op))
         => DeclaredX = BinaryOpNode(UnaryOpNode(p, IdentifierNode(<<"a">>)), op,
                                     IdentifierNode(<<"b">>))
    /\ Compiled(PrefixSecond(op, p))
         => DeclaredX = BinaryOpNode(IdentifierNode(<<"a">>), op,
                                     UnaryOpNode(p, IdentifierNode(<<"b">>)))
(***************************************************************************)
(* The BinaryOp nodes that the level builders make while an expression is  *)
(* built: every call of a builder that build_expression leads to, also the *)
(* calls whose result the caller drops, with the level that made the node. *)
(***************************************************************************)
RECURSIVE ExpressionMade(_)
RECURSIVE LevelMade(_, _)
RECURSIVE BelowMade(_, _)
RECURSIVE ScanMade(_, _, _)
RECURSIVE UnaryMade(_)
RECURSIVE PostfixMade(_)
RECURSIVE ScanPostfixMade(_, _)
RECURSIVE PrimaryMade(_)
RECURSIVE ArgumentsMade(_)

\* the calls under _build_expression
ExpressionMade(expression) ==
  IF Falsy(expression) THEN {}
  ELSE LevelMade(1, flatten_expression(expression))

\* the calls under the builder of level lv
LevelMade(lv, expr) ==
  IF ~IsList(expr) THEN BelowMade(lv, expr)
  ELSE IF Len(expr.l) = 1 THEN LevelMade(lv, expr.l[1])
  ELSE IF Len(expr.l) = 0 THEN {}
  ELSE ScanMade(lv, expr.l, 1)

BelowMade(lv, expr) ==
  IF lv < Len(LevelOps) THEN LevelMade(lv + 1, expr) ELSE UnaryMade(expr)

\* left and right are both built at every operator of the level that has
\* tokens on both sides; the node is made when neither is absent
ScanMade(lv, expr, i) ==
  IF i > Len(expr) THEN BelowMade(lv, List(expr))
  ELSE LET left_part == SubSeq(expr, 1, i - 1)
           right_part == SubSeq(expr, i + 1, Len(expr))
           split == /\ IsStr(expr[i]) /\ expr[i].s \in LevelOps[lv]
                    /\ left_part # <<>> /\ right_part # <<>>
           left == build_below(lv, List(left_part))
           right == build_level(lv, List(right_part))
           under == IF split
                    THEN BelowMade(lv, List(left_part)) \cup LevelMade(lv, List(right_part))
                    ELSE {}
       IN IF split /\ left # NoNode /\ right # NoNode
          THEN under \cup {[level |-> lv, node |-> BinaryOpNode(left, expr[i].s, right)]}
          ELSE under \cup ScanMade(lv, expr, i + 1)

UnaryMade(expr) ==
  IF ~IsList(expr) THEN PostfixMade(expr)
  ELSE IF Len(expr.l) = 1 THEN UnaryMade(expr.l[1])
  ELSE IF Len(expr.l) >= 2 /\ (Is(expr.l[1], <<"!">>) \/ Is(expr.l[1], <<"-">>))
       THEN UnaryMade(List(From(expr.l, 1)))
       ELSE PostfixMade(expr)

PostfixMade(expr) ==
  IF ~IsList(expr) THEN PrimaryMade(expr)
  ELSE IF Len(expr.l) = 1 THEN PostfixMade(expr.l[1])
  ELSE ScanPostfixMade(expr.l, 0)

ScanPostfixMade(expr, i) ==
  IF i >= Len(expr) THEN PrimaryMade(List(expr))
  ELSE IF Is(expr[i + 1], <<"[">>) /\ i + 2 < Len(expr) /\ Is(expr[i + 3], <<"]">>)
       THEN PrimaryMade(List(Slice(expr, 0, i))) \cup ExpressionMade(expr[i + 2])
       ELSE ScanPostfixMade(expr, i + 1)

PrimaryMade(expr) ==
  IF ~IsList(expr) THEN {}
  ELSE LET e == expr.l
           n == Len(e)
       IN IF n = 1 THEN PrimaryMade(e[1])
          ELSE IF n >= 3 /\ Is(e[1], <<"(">>) /\ Is(e[n], <<")">>)
               THEN ExpressionMade(List(Slice(e, 1, n - 1)))
          ELSE IF n >= 3 /\ Is(e[2], <<"(">>) /\ Is(e[n], <<")">>)
               THEN ArgumentsMade(List(IF n > 3 THEN Slice(e, 2, n - 1) ELSE <<>>))
          ELSE IF n >= 2 /\ Is(e[1], <<"[">>) /\ Is(e[n], <<"]">>)
               THEN ArgumentsMade(List(IF n > 2 THEN Slice(e, 1, n - 1) ELSE <<>>))
          ELSE IF n > 0 THEN PrimaryMade(e[1]) ELSE {}

ArgumentsMade(arguments) ==
  IF Falsy(arguments) THEN {}
  ELSE UNION {IF Is(arguments.l[i], <<",">>) THEN {} ELSE ExpressionMade(arguments.l[i]) :
                i \in 1..Len(arguments.l)}

\* the match of the rule Expression in the first statement var x=E; of the
\* program compiled
DeclaredMatch == th["tc"].outcome.val.l[1].l[4]

\* the level of _build_comparison
ComparisonLevel == 4

\* C25: equality and comparison are distinct precedence levels and comparison
\* binds tighter: a cmp b eq c (a < b == c) is built as
\* BinaryOp(BinaryOp(a, cmp, b), eq, c) and a eq b cmp c (a == b < c) as
\* BinaryOp(a, eq, BinaryOp(b, cmp, c)), and the comparison-level builder
\* never makes a BinaryOp whose operator is == or !=.
C25_EqualityAboveComparison ==
  /\ \A cmp \in ComparisonOps : \A eq \in EqualityOps :
       /\ Compiled(Chain3(OperandLists[2], cmp, eq))
            => DeclaredX = LeftNested(OperandLists[2], cmp, eq)
       /\ Compiled(Chain3(OperandLists[2], eq, cmp))
            => DeclaredX = RightNested(OperandLists[2], eq, cmp)
  /\ \A e \in RelationalExpressions :
       Compiled(e) => \A made \in ExpressionMade(DeclaredMatch) :
                        made.level = ComparisonLevel => made.node.name \notin EqualityOps
(***************************************************************************)
(* Terminal tokens at the Primary level                                    *)
(***************************************************************************)
\* the node of a token by the terminal of the rule Primary that matches it
TypedToken(token) ==
  IF token[1] \in Digits THEN NumberNode(token)
  ELSE IF token[1] = "\"" THEN StringNode(token)
  ELSE IF token[1] = "'" THEN CharacterNode(StripEnds(token))
  ELSE IF token \in {<<"t", "r", "u", "e">>, <<"f", "a", "l", "s", "e">>}
       THEN BooleanNode(token)
  ELSE IdentifierNode(token)

\* C26: the Primary builder gives every terminal token its node: a Number, a
\* String, a Character, a Boolean, and every Identifier token
\* [a-zA-Z_][a-zA-Z0-9_]*, with digits or underscores after the first
\* character also (x1, my_var), becomes an Identifier node; the node is never
\* absent.
C26_PrimaryTypesTokens ==
  \A token \in PrimaryTokens :
    Compiled(token) => DeclaredX # NoNode /\ DeclaredX = TypedToken(token)
(***************************************************************************)
(* Calls and their arguments                                               *)
(***************************************************************************)
\* the node of one argument
ArgumentNode(a) ==
  IF a = OperatorArgument
  THEN BinaryOpNode(IdentifierNode(<<"a">>), <<"+">>, NumberNode(<<"1">>))
  ELSE Operand(a)

\* the nodes of the arguments a1, ..., ak in order
ArgumentNodesOf(args) == [i \in 1..Len(args) |-> ArgumentNode(args[i])]

\* TinyCLParser.parse has returned the AST of the program f(a1,...,ak);var y=0;
CompiledCall(args) == tinycl.stage = "built" /\ th["tc"].text = CallStatementOf(args)

\* C27: a call with k arguments, k = 0 also, is built as a call node with
\* exactly the k argument nodes in source order, as a call statement
\* (FunctionCall) and as a call expression (FunctionCallExpr), also when an
\* argument holds an operator (f(a+1)).
C27_CallKeepsArguments ==
  \A args \in CallArguments :
    /\ Compiled(CallOf(Joined(args)))
         => DeclaredX = FunctionCallExprNode(<<"f">>, ArgumentNodesOf(args))
    /\ CompiledCall(args)
         => tinycl.ast.kids[1] = FunctionCallNode(<<"f">>, ArgumentNodesOf(args))
(***************************************************************************)
(* _flatten_expression on the match of the rule Expression                 *)
(***************************************************************************)
\* the non-list leaves of a match tree, left to right
RECURSIVE Leaves(_)
RECURSIVE LeavesFrom(_, _)
Leaves(tree) == IF ~IsList(tree) THEN <<tree>> ELSE LeavesFrom(tree.l, 1)

LeavesFrom(items, i) ==
  IF i > Len(items) THEN <<>> ELSE Leaves(items[i]) \o LeavesFrom(items, i + 1)

\* the elements of a flattened value: the value itself when it is no list
Flat(v) == IF IsList(v) THEN v.l ELSE <<v>>

\* C28: flatten yields a single non-list value or a list with no list
\* elements, whose elements are exactly the non-list leaves of the match
\* tree given, in left-to-right order, so that every parenthesis and bracket
\* token is kept; and flattening is idempotent: flatten(flatten(x)) =
\* flatten(x).
C28_FlattenLeaves ==
  \A e \in Expressions :
    Compiled(e) =>
      LET flat == flatten_expression(DeclaredMatch)
      IN /\ \A i \in 1..Len(Flat(flat)) : ~IsList(Flat(flat)[i])
         /\ Flat(flat) = Leaves(DeclaredMatch)
         /\ flatten_expression(flat) = flat
(***************************************************************************)
(* The cursor of a parse() call                                            *)
(***************************************************************************)
\* 0 <= offset <= len(text)
InText(text, offset) == 0 <= offset /\ offset <= Len(text)

\* the cursor of the call of thread t and the cursors its parse methods
\* saved to go back to
CursorInRange(t) ==
  /\ InText(th[t].text, th[t].pos)
  /\ \A i \in DOMAIN th[t].stack : InText(th[t].text, th[t].stack[i].start)

\* a terminal, a way back to a saved cursor or a memo hit has set the cursor
CursorSet(t) == th'[t].pos # th[t].pos => InText(th'[t].text, th'[t].pos)

\* C29: in every state of a parse() call 0 <= cursor <= len(text): no
\* terminal consumes at the end of the input, and no step back to a saved
\* cursor and no memo hit sets the cursor outside the text.
C29_CursorInBounds ==
  /\ [](\A t \in {"c1", "r1"} : CursorInRange(t))
  /\ [][\A t \in {"c1", "r1"} : CursorSet(t)]_vars

\* a literal is tried where fewer characters are left than it has, the first
\* of them matching
C29_Witness ==
  /\ Evaluating("c1", "Literal")
  /\ Len(th["c1"].text) - th["c1"].pos < Len(th["c1"].cur.lit)
  /\ ~eof(th["c1"].text, th["c1"].pos)
  /\ th["c1"].text[th["c1"].pos + 1] = th["c1"].cur.lit[1]

\* a memo hit has moved the cursor to the end of the text
C29_Reached ==
  /\ th["c1"].mode = "ret"
  /\ th["c1"].readFrom # {}
  /\ th["c1"].pos = Len(th["c1"].text)
  /\ th["c1"].pos > 0
(***************************************************************************)
(* The memo table of a parse() call                                        *)
(***************************************************************************)
\* every entry (rule, p) -> (result, e) of the table of the call of thread t
\* was written in this call for a rule of the grammar, with p <= e <= len(text)
MemoEntriesInRange(t) ==
  \A key \in DOMAIN cache[InstanceOf(t)] :
    LET entry == cache[InstanceOf(t)][key]
    IN /\ entry.by = <<t, calls[t]>>
       /\ key[1] \in RuleNames(GrammarOf(t))
       /\ 0 <= key[2] /\ key[2] <= entry.end /\ entry.end <= Len(th[t].text)

\* the table changes only when parse() empties it or when the body of a rule
\* entered at p has returned: then (rule, p) gets the value returned and the
\* cursor after it; an attempt that fails leaves the table alone, and an
\* entry that stays keeps its value
C30_Step ==
  \A t \in {"c1", "r1"} :
    LET old == cache[InstanceOf(t)]
        new == cache'[InstanceOf(t)]
        key == <<Top(th[t]).name, Top(th[t]).start>>
    IN /\ Fails(t, "Rule") => new = old
       /\ \A k \in DOMAIN old \cap DOMAIN new :
            new[k].val = old[k].val /\ new[k].end = old[k].end
       /\ new # old =>
            \/ new = EmptyCache
            \/ /\ Resuming(t, "Rule") /\ th[t].mode = "ret"
               /\ DOMAIN new = DOMAIN old \cup {key}
               /\ new[key].val = th[t].val
               /\ new[key].end = th'[t].pos

\* C30: in every state of a parse() call each memo entry (rule, p) ->
\* (result, e) was written after the body of that rule matched from p in the
\* text of this call and has p <= e <= len(text); a rule attempt that fails
\* at p adds no entry for (rule, p); an entry is never overwritten with a
\* different value.
C30_MemoTableInvariant ==
  /\ [](\A t \in {"c1", "r1"} : MemoEntriesInRange(t))
  /\ [][C30_Step]_vars

\* a rule attempt fails while the table holds an entry of the same rule
C30_Witness ==
  /\ Resuming("c1", "Rule") /\ th["c1"].mode = "fail"
  /\ \E key \in DOMAIN cache["P"] : key[1] = Top(th["c1"]).name

====
